---- MODULE Spec2Model ----
(***************************************************************************)
(* Model of the fund estimator core: the adjustment journal, the snapshot  *)
(* replay, the position edit bridge, the daily ledger with its settlement  *)
(* steps, the accuracy aggregation and the valuation router.               *)
(*                                                                         *)
(* Numbers: the code computes with Python floats.  The model computes with *)
(* exact rationals [n, d] (d > 0, lowest terms); the 1e-9 / 1e-6           *)
(* tolerances of the code are kept as tolerances, scaled to the model's    *)
(* 32-bit integers (Eps9, Eps6).                                           *)
(* Dates: ISO date strings compare like day numbers; a date is 1, 2, ...   *)
(***************************************************************************)
EXTENDS Integers, Naturals, Sequences, FiniteSets, TLC

VARIABLES
    journal,    \* adjustments.json "items": the entries in insertion order
    ledger,     \* daily_ledger.json "items": the ledger rows in file order
    today,      \* the current calendar day
    cloud,      \* the app_adjustments table of the cloud store (cloud mode)
    estIn,      \* valuation: the inputs of one estimate_one call
    estOut,     \* valuation: its result
    snapOut,    \* the results of the snapshot queries made on the current stores
    settledKeys, \* history: the (date, code) keys whose row has been SETTLED
    estMany,    \* valuation: the inputs and the results of one estimate_many call
    intraday,   \* intraday/<date>.json "series": the points of each target
    closePc,    \* where each caller of intraday_append_close_marker stands
    createdKeys, \* history: the (date, code) keys of the ledger rows ever created
    cloudLedger, \* the app_daily_ledger table of the cloud store (cloud mode)
    lockFile,   \* the .lock file next to one store file
    lockPc,     \* where each process stands in update_json
    lockRead,   \* the data each process has read inside update_json
    storeFile,  \* the store file: the updates it holds
    storeDone,  \* history: the updates whose update_json call has returned
    sched,      \* the collector: its arguments, its position in the loop, the
                \* clock conditions and the substeps run and failed in the iteration
    nightly,    \* the collector's nightly settlement: its arguments, the clock it
                \* read last, last_settle_try_ts and the attempts made
    published,  \* the dates whose official nav the provider serves
    session,    \* the user id the session holds (fund_estimator_user_id)
    userFiles,  \* data/users/<uid>: the store files of each user directory
    cloudTables, \* the app_adjustments and app_watchlist rows with their user_id
    collectorDay, \* the collector on one trading day: the minute of its last
                \* iteration, what that iteration found, and the day's series
    editRun,    \* an apply_position_edit call in progress: its position, its
                \* arguments, the journal it found, and what another session read
    launcher    \* the collector processes, the pid file and the start_collector
                \* calls in progress

\* The variables that the journal, ledger, replay and estimate_one steps
\* leave alone.
valuationAux == <<estMany>>
intradayAux == <<intraday, closePc>>
historyAux == <<createdKeys>>
cloudAux == <<cloudLedger>>
lockAux == <<lockFile, lockPc, lockRead, storeFile, storeDone>>
schedAux == <<sched>>
nightlyAux == <<nightly, published>>
userAux == <<session, userFiles, cloudTables>>
markerAux == <<collectorDay>>
editAux == <<editRun>>
launchAux == <<launcher>>
auxVars == <<valuationAux, intradayAux, historyAux, cloudAux, lockAux, schedAux, nightlyAux, userAux, markerAux, editAux, launchAux>>

vars == <<journal, ledger, today, cloud, estIn, estOut, snapOut, settledKeys, auxVars>>

-----------------------------------------------------------------------------
(* Bounds of the model *)

MaxJournal == 2        \* entries the journal file holds at most

Days == {1, 2}                          \* the calendar days
LastDay == CHOOSE d \in Days : \A e \in Days : e <= d

CodeOrder == <<"000001", "510300">>     \* the instrument codes, in string order
Codes == {CodeOrder[i] : i \in 1..Len(CodeOrder)}

Range(s) == {s[i] : i \in 1..Len(s)}

-----------------------------------------------------------------------------
(* float: exact rational arithmetic *)

RECURSIVE GCD(_, _)
GCD(a, b) == IF b = 0 THEN a ELSE GCD(b, a % b)

Abs(x) == IF x < 0 THEN -x ELSE x

Rat(n, d) == LET g == GCD(Abs(n), d) IN [n |-> n \div g, d |-> d \div g]

Float(k) == [n |-> k, d |-> 1]

Zero == Float(0)

\* Sums, products and comparisons cancel common factors first, so that the
\* intermediate integers stay small.
FAdd(x, y) ==
    LET g == GCD(x.d, y.d)
    IN Rat(x.n * (y.d \div g) + y.n * (x.d \div g), (x.d \div g) * y.d)
FSub(x, y) == FAdd(x, [n |-> -y.n, d |-> y.d])
FMul(x, y) ==
    LET g1 == GCD(Abs(x.n), y.d)
        g2 == GCD(Abs(y.n), x.d)
    IN IF x.n = 0 \/ y.n = 0 THEN [n |-> 0, d |-> 1]
       ELSE [n |-> (x.n \div g1) * (y.n \div g2), d |-> (x.d \div g2) * (y.d \div g1)]
FDiv(x, y) == IF y.n > 0 THEN FMul(x, [n |-> y.d, d |-> y.n])
                         ELSE FMul(x, [n |-> -y.d, d |-> -y.n])
FLt(x, y) == LET g == GCD(x.d, y.d) IN x.n * (y.d \div g) < y.n * (x.d \div g)
FLe(x, y) == LET g == GCD(x.d, y.d) IN x.n * (y.d \div g) <= y.n * (x.d \div g)
FGt(x, y) == FLt(y, x)
FGe(x, y) == FLe(y, x)
FMax(x, y) == IF FLt(x, y) THEN y ELSE x
FAbs(x) == [n |-> Abs(x.n), d |-> x.d]

-----------------------------------------------------------------------------
(* Adjustment journal (services/adjustment_service.py), local file store *)

\* Note texts.  looks_like_ui_edit (_looks_like_ui_edit) reads the lower-cased note: the notes
\* below that contain "[ui_edit]" or start with "edit->", "ui_edit",
\* "ui edit" are the ones it accepts.
NoNote == ""
UiEditLikeNotes == {"edit->BUY", "edit->SELL", "edit->CASH_ADJ", "edit->fix",
                    "[ui_edit] fix", "ui edit 1/30"}

looks_like_ui_edit(item) ==
    IF item.source = "ui_edit" THEN TRUE
    ELSE IF item.note = NoNote THEN FALSE
    ELSE item.note \in UiEditLikeNotes

\* uuid.uuid4().hex: an id no stored entry has.  The model takes the least
\* such number; the code only ever compares ids of stored entries.
FreshId(items) ==
    CHOOSE k \in 1..(Len(items) + 1) :
        /\ \A i \in 1..Len(items) : items[i].id # k
        /\ \A m \in 1..(k - 1) : \E i \in 1..Len(items) : items[i].id = m

\* Faulty argument checks that leave out the price.
AddArgsValidSharesOnly(type, code, effective_date, shares, price, source) ==
    /\ type \in {"BUY", "SELL", "CASH_ADJ"}
    /\ code # ""
    /\ effective_date # 0
    /\ source \in {"manual", "ui_edit"}
    /\ type \in {"BUY", "SELL"} => FGt(shares, Zero)

\* The argument checks of add_adjustment (ValueError otherwise).
AddArgsValid(type, code, effective_date, shares, price, source) ==
    /\ type \in {"BUY", "SELL", "CASH_ADJ"}
    /\ code # ""
    /\ effective_date # 0
    /\ source \in {"manual", "ui_edit"}
    /\ type \in {"BUY", "SELL"} => (FGt(shares, Zero) /\ FGt(price, Zero))

NewItem(items, type, code, effective_date, shares, price, cash, note, source) ==
    [id |-> FreshId(items), type |-> type, code |-> code,
     effective_date |-> effective_date, shares |-> shares, price |-> price,
     cash |-> cash, note |-> note, source |-> source]

\* add_adjustment on the local file: the updater appends the item.
add_adjustment(items, type, code, effective_date, shares, price, cash, note, source) ==
    Append(items, NewItem(items, type, code, effective_date, shares, price,
                          cash, note, source))

\* add_adjustment as a whole: ValueError before the item is built, else the
\* append.
AddAdjustmentCall(items, type, code, effective_date, shares, price, cash, note, source) ==
    IF AddArgsValid(type, code, effective_date, shares, price, source)
    THEN [raised |-> FALSE,
          items |-> add_adjustment(items, type, code, effective_date, shares, price,
                                   cash, note, source)]
    ELSE [raised |-> TRUE, items |-> items]

remove_adjustment(items, adj_id) ==
    SelectSeq(items, LAMBDA x : x.id # adj_id)

remove_adjustments_by_code(items, code) ==
    SelectSeq(items, LAMBDA x : x.code # code)

\* migrate_ui_edit_source: entries of (code, effective_date) whose note looks
\* like an edit get source = ui_edit; code = "" / effective_date = 0 match all.
migrate_ui_edit_source(items, code, effective_date) ==
    [i \in 1..Len(items) |->
        LET it == items[i] IN
        IF code # "" /\ it.code # code THEN it
        ELSE IF effective_date # 0 /\ it.effective_date # effective_date THEN it
        ELSE IF it.source = "ui_edit" THEN it
        ELSE IF looks_like_ui_edit(it) THEN [it EXCEPT !.source = "ui_edit"]
        ELSE it]

\* A removal that takes the entries of the code on every date.
RemoveByCodeOfAnyDate(items, code, effective_date, source) ==
    SelectSeq(items, LAMBDA it : ~(it.code = code /\ (source = "" \/ it.source = source)))

\* remove_adjustments_by_code_date; source = "" removes whatever the source.
remove_adjustments_by_code_date(items, code, effective_date, source) ==
    LET migrated == IF source = "ui_edit"
                    THEN migrate_ui_edit_source(items, code, effective_date)
                    ELSE items
    IN SelectSeq(migrated,
                 LAMBDA it : ~(/\ it.code = code
                               /\ it.effective_date = effective_date
                               /\ (source = "" \/ it.source = source)))

\* list_adjustments: the stored items, optionally of one code, sorted by
\* (effective_date, created_at) with a stable sort.  created_at is the wall
\* clock at insertion, so it never decreases along the stored order and the
\* sort is the stable sort by effective_date.
RECURSIVE SortByDate(_, _)
SortByDate(items, d) ==
    IF d > LastDay THEN <<>>
    ELSE SelectSeq(items, LAMBDA x : x.effective_date = d) \o SortByDate(items, d + 1)

list_adjustments(items, code) ==
    LET sel == IF code = "" THEN items
               ELSE SelectSeq(items, LAMBDA x : x.code = code)
    IN SortByDate(sel, 0)

-----------------------------------------------------------------------------
(* Snapshot replay (services/snapshot_service.py) *)

\* The tolerances 1e-9 and 1e-6 of the source.  TLC's integers are 32 bits
\* wide, so the model scales them: every ordinary input is a multiple of 1/2,
\* and SmallExcess is the one quantity below the tolerance Eps9.
Eps9 == Rat(1, 100)
Eps6 == Rat(1, 10)
SmallExcess == Rat(1, 200)

\* snapOut before any snapshot query.
NoQuery == [date |-> 0]

ReplayInit ==
    [shares   |-> [c \in Codes |-> Zero],
     avg_cost |-> [c \in Codes |-> Zero],
     realized |-> [c \in Codes |-> Zero],
     warnings |-> <<>>]

\* A faulty step whose BUY takes the latest price as the average cost.
ReplayStepLastPrice(st, a) ==
    LET code == a.code
        cur_sh == st.shares[code]
        cur_avg == st.avg_cost[code]
        cur_real == st.realized[code]
    IN
    IF a.type = "BUY" THEN
        [st EXCEPT !.shares[code] = FAdd(cur_sh, a.shares), !.avg_cost[code] = a.price]
    ELSE IF a.type = "SELL" THEN
        LET over == FGt(a.shares, FAdd(cur_sh, Eps9))
            sh == IF over THEN FMax(cur_sh, Zero) ELSE a.shares
            new_sh == FSub(cur_sh, sh)
        IN [st EXCEPT !.shares[code] = new_sh,
                      !.avg_cost[code] = IF FGt(new_sh, Zero) THEN cur_avg ELSE Zero,
                      !.realized[code] = FAdd(cur_real, FMul(FSub(a.price, cur_avg), sh)),
                      !.warnings = IF over
                                   THEN Append(@, [kind |-> "oversell", code |-> code,
                                                   id |-> a.id])
                                   ELSE @]
    ELSE [st EXCEPT !.realized[code] = FAdd(cur_real, a.cash)]

\* One iteration of the replay loop.
ReplayStep(st, a) ==
    LET code == a.code
        cur_sh == st.shares[code]
        cur_avg == st.avg_cost[code]
        cur_real == st.realized[code]
    IN
    IF a.type = "BUY" THEN
        LET buy_amt == FMul(a.shares, a.price)
            old_amt == FMul(cur_sh, cur_avg)
            new_sh == FAdd(cur_sh, a.shares)
            new_avg == IF FGt(new_sh, Zero)
                       THEN FDiv(FAdd(old_amt, buy_amt), new_sh) ELSE Zero
        IN [st EXCEPT !.shares[code] = new_sh, !.avg_cost[code] = new_avg]
    ELSE IF a.type = "SELL" THEN
        IF FLe(a.shares, Zero) \/ FLe(a.price, Zero) THEN
            [st EXCEPT !.warnings =
                Append(@, [kind |-> "invalid_sell", code |-> code, id |-> 0])]
        ELSE
            LET over == FGt(a.shares, FAdd(cur_sh, Eps9))
                sh == IF over THEN FMax(cur_sh, Zero) ELSE a.shares
                pnl == FMul(FSub(a.price, cur_avg), sh)
                new_sh == FSub(cur_sh, sh)
                w == IF over
                     THEN Append(st.warnings,
                                 [kind |-> "oversell", code |-> code, id |-> a.id])
                     ELSE st.warnings
            IN [st EXCEPT !.shares[code] = new_sh,
                          !.avg_cost[code] = IF FGt(new_sh, Zero) THEN cur_avg ELSE Zero,
                          !.realized[code] = FAdd(cur_real, pnl),
                          !.warnings = w]
    ELSE IF a.type = "CASH_ADJ" THEN
        [st EXCEPT !.realized[code] = FAdd(cur_real, a.cash)]
    ELSE
        [st EXCEPT !.warnings =
            Append(@, [kind |-> "unknown_type", code |-> code, id |-> a.id])]

\* A replay that stops at the first entry of an unknown kind.
RECURSIVE ReplayFoldStopping(_, _, _)
ReplayFoldStopping(st, adjs, i) ==
    IF i > Len(adjs) \/ adjs[i].type \notin {"BUY", "SELL", "CASH_ADJ"} THEN st
    ELSE ReplayFoldStopping(ReplayStep(st, adjs[i]), adjs, i + 1)

RECURSIVE ReplayFold(_, _, _)
ReplayFold(st, adjs, i) ==
    IF i > Len(adjs) THEN st ELSE ReplayFold(ReplayStep(st, adjs[i]), adjs, i + 1)

\* A replay that reads every entry, whatever its date.
ReplayEntriesOfAllDates(items, target_date) == list_adjustments(items, "")

\* The entries the replay of target_date reads, in replay order.
ReplayEntries(items, target_date) ==
    SelectSeq(list_adjustments(items, ""), LAMBDA a : a.effective_date <= target_date)

RECURSIVE PositionsOut(_, _)
PositionsOut(st, i) ==
    IF i > Len(CodeOrder) THEN <<>>
    ELSE LET code == CodeOrder[i]
             sh == st.shares[code]
             rc == st.realized[code]
         IN (IF FGt(sh, Zero) \/ FGt(FAbs(rc), Eps9)
             THEN <<[code |-> code, shares_end |-> sh,
                     avg_cost_nav_end |-> st.avg_cost[code],
                     realized_pnl_end |-> rc]>>
             ELSE <<>>) \o PositionsOut(st, i + 1)

\* The state of the loop before each entry and after the last one.
ReplayTrace(adjs) ==
    [k \in 1..(Len(adjs) + 1) |-> ReplayFold(ReplayInit, SubSeq(adjs, 1, k - 1), 1)]

build_positions_as_of_safe(items, target_date) ==
    LET st == ReplayFold(ReplayInit, ReplayEntries(items, target_date), 1)
    IN [positions |-> PositionsOut(st, 1), warnings |-> st.warnings]

build_positions_as_of(items, target_date) ==
    build_positions_as_of_safe(items, target_date).positions

-----------------------------------------------------------------------------
(* Position edit bridge (services/edit_bridge_service.py) *)

NoPosition == [shares_end |-> Zero, avg_cost_nav_end |-> Zero, realized_pnl_end |-> Zero]

\* The entry of a snapshot list for one code, or the default position.
SnapshotGet(snaps, hit) ==
    IF hit = {} THEN NoPosition
    ELSE [shares_end |-> snaps[CHOOSE i \in hit : TRUE].shares_end,
          avg_cost_nav_end |-> snaps[CHOOSE i \in hit : TRUE].avg_cost_nav_end,
          realized_pnl_end |-> snaps[CHOOSE i \in hit : TRUE].realized_pnl_end]

SnapshotPick(snaps, code) ==
    SnapshotGet(snaps, {i \in 1..Len(snaps) : snaps[i].code = code})

\* _get_snapshot_map(d).get(code, default)
SnapshotOf(items, d, code) == SnapshotPick(build_positions_as_of(items, d), code)

\* date.fromisoformat(effective_date) returns: dates are day numbers, 0 is
\* the empty string and a negative number a text that is no date.
IsIsoDate(effective_date) == effective_date > 0

EditArgsValid(effective_date, code, shares_end, avg_cost_nav_end) ==
    /\ code # ""
    /\ FGe(shares_end, Zero)
    /\ FGe(avg_cost_nav_end, Zero)
    /\ IsIsoDate(effective_date)

\* The BUY or SELL that carries a shares delta, if the delta is large enough.
EditSharesDelta(items, effective_date, code, delta_sh, price, note) ==
    IF FGt(FAbs(delta_sh), Eps9)
    THEN IF FGt(delta_sh, Zero)
         THEN add_adjustment(items, "BUY", code, effective_date, delta_sh, price, Zero,
                             IF note = NoNote THEN "edit->BUY" ELSE note, "ui_edit")
         ELSE add_adjustment(items, "SELL", code, effective_date, FAbs(delta_sh), price,
                             Zero, IF note = NoNote THEN "edit->SELL" ELSE note, "ui_edit")
    ELSE items

EditPrice(avg_cost_nav_end) ==
    IF FGt(avg_cost_nav_end, Zero) THEN avg_cost_nav_end ELSE Float(1)

\* Step 1 of apply_position_edit: the shares delta becomes a BUY or a SELL.
EditShares(items, effective_date, code, shares_end, avg_cost_nav_end, note) ==
    EditSharesDelta(items, effective_date, code,
                    FSub(shares_end, SnapshotOf(items, effective_date, code).shares_end),
                    EditPrice(avg_cost_nav_end), note)

\* The CASH_ADJ that carries a realized delta, if the delta is large enough.
EditRealizedDelta(items, effective_date, code, delta_real, note) ==
    IF FGt(FAbs(delta_real), Eps6)
    THEN add_adjustment(items, "CASH_ADJ", code, effective_date, Zero, Zero, delta_real,
                        IF note = NoNote THEN "edit->CASH_ADJ" ELSE note, "ui_edit")
    ELSE items

\* A faulty step 2 that books the target realized gain, not its distance from
\* the realized gain of the snapshot.
EditRealizedAbsolute(items, effective_date, code, realized_pnl_end, note) ==
    EditRealizedDelta(items, effective_date, code, realized_pnl_end, note)

\* Step 2: the realized delta becomes a CASH_ADJ.
EditRealized(items, effective_date, code, realized_pnl_end, note) ==
    EditRealizedDelta(items, effective_date, code,
                      FSub(realized_pnl_end,
                           SnapshotOf(items, effective_date, code).realized_pnl_end),
                      note)

\* A faulty edit that reads the base snapshot before it removes the earlier
\* edit entries of the day.
ApplyEditBaseBeforeRemove(items, effective_date, code, shares_end, avg_cost_nav_end, realized_pnl_end, note) ==
    EditRealized(
        EditSharesDelta(remove_adjustments_by_code_date(items, code, effective_date, "ui_edit"),
                        effective_date, code,
                        FSub(shares_end, SnapshotOf(items, effective_date, code).shares_end),
                        EditPrice(avg_cost_nav_end), note),
        effective_date, code, realized_pnl_end, note)

\* apply_position_edit when every store call succeeds.
apply_position_edit(items, effective_date, code, shares_end, avg_cost_nav_end, realized_pnl_end, note) ==
    EditRealized(
        EditShares(remove_adjustments_by_code_date(items, code, effective_date, "ui_edit"),
                   effective_date, code, shares_end, avg_cost_nav_end, note),
        effective_date, code, realized_pnl_end, note)

\* The sessions that call start_collector, and the users they are signed in as.
Sessions == {1, 2}
SessionUsers == {"u_1", "u_2"}

\* No collector runs, collector.pid does not exist (0), no call is under way.
NoCall == [pc |-> "idle", user |-> "", pid |-> 0, ok |-> FALSE, own_alive |-> FALSE]
NoCollectors == [alive |-> {}, pid_file |-> 0, spawned |-> 0, call |-> [s \in Sessions |-> NoCall]]

\* _is_pid_alive(_read_collector_pid()): the pid of the file is that of a
\* live process.
is_pid_alive(alive, pid) == pid # 0 /\ \E p \in alive : p.pid = pid

\* No apply_position_edit call has begun; NotRead: the other session has not
\* read the journal.
NotRead == [during |-> "", items |-> <<>>]
NoEditRun == [pc |-> "idle", e |-> <<>>, pre |-> <<>>, read |-> NotRead]

\* apply_position_edit as a whole: ValueError before the journal is read,
\* else the edit.
ApplyPositionEditCall(items, effective_date, code, shares_end, avg_cost_nav_end, realized_pnl_end, note) ==
    IF EditArgsValid(effective_date, code, shares_end, avg_cost_nav_end)
    THEN [raised |-> FALSE,
          items |-> apply_position_edit(items, effective_date, code, shares_end,
                                        avg_cost_nav_end, realized_pnl_end, note)]
    ELSE [raised |-> TRUE, items |-> items]

-----------------------------------------------------------------------------
(* Daily ledger and settlement (services/settlement_service.py), local file *)

SETTLE_ESTIMATED_ONLY == "estimated_only"
SETTLE_SETTLED == "settled"

None == [n |-> 0, d |-> 0]      \* Python None in a float field

\* _find_item_index: the first row of (date, code); 0 stands for None.
\* old_ui_items: the entries of (code, effective_date) that look like edits,
\* kept for the rollback.
OldUiItems(items, code, effective_date) ==
    SelectSeq(list_adjustments(items, code),
              LAMBDA it : it.effective_date = effective_date /\ looks_like_ui_edit(it))

\* The store calls of apply_position_edit, after the removal, that can raise.
EditFailures == {"add_shares", "add_realized"}

\* The journal at the moment the call named by fail raises; base is the
\* journal after the removal of the earlier edit entries.
EditPartial(base, effective_date, code, shares_end, avg_cost_nav_end, note, fail) ==
    IF fail = "add_shares" THEN base
    ELSE EditShares(base, effective_date, code, shares_end, avg_cost_nav_end, note)

\* Whether the edit makes the call named by fail at all (the BUY / SELL only
\* for a shares delta, the CASH_ADJ only for a realized delta).
EditCalls(base, effective_date, code, shares_end, avg_cost_nav_end, realized_pnl_end, note, fail) ==
    IF fail = "add_shares"
    THEN FGt(FAbs(FSub(shares_end, SnapshotOf(base, effective_date, code).shares_end)), Eps9)
    ELSE FGt(FAbs(FSub(realized_pnl_end,
                       SnapshotOf(EditShares(base, effective_date, code, shares_end,
                                             avg_cost_nav_end, note),
                                  effective_date, code).realized_pnl_end)), Eps6)

\* The loop "for it in old_ui_items" of the rollback.
RECURSIVE RollbackReadd(_, _, _, _, _)
RollbackReadd(items, old, code, effective_date, i) ==
    IF i > Len(old) THEN items
    ELSE RollbackReadd(
             IF old[i].type \in {"BUY", "SELL", "CASH_ADJ"}
             THEN add_adjustment(items, old[i].type, code, effective_date, old[i].shares,
                                 old[i].price, old[i].cash, old[i].note, "ui_edit")
             ELSE items,
             old, code, effective_date, i + 1)

\* The except branch of apply_position_edit: the edit entries of the day are
\* removed again and the kept entries are added back.  With rollback_ok
\* FALSE the first add of the rollback raises too.
EditRollback(partial, old, code, effective_date, rollback_ok) ==
    IF rollback_ok
    THEN RollbackReadd(remove_adjustments_by_code_date(partial, code, effective_date, "ui_edit"),
                       old, code, effective_date, 1)
    ELSE remove_adjustments_by_code_date(partial, code, effective_date, "ui_edit")

\* apply_position_edit when the call named by fail raises: the journal the
\* caller finds when the error reaches it.
apply_position_edit_failing(items, effective_date, code, shares_end, avg_cost_nav_end, note, fail, rollback_ok) ==
    EditRollback(
        EditPartial(remove_adjustments_by_code_date(items, code, effective_date, "ui_edit"),
                    effective_date, code, shares_end, avg_cost_nav_end, note, fail),
        OldUiItems(items, code, effective_date), code, effective_date, rollback_ok)

\* A faulty lookup that matches the code whatever the date.
FindItemIndexByCode(items, date_str, code) ==
    LET hit == {i \in 1..Len(items) : items[i].code = code}
    IN IF hit = {} THEN 0 ELSE CHOOSE i \in hit : \A k \in hit : i <= k

find_item_index(items, date_str, code) ==
    LET hit == {i \in 1..Len(items) : items[i].date = date_str /\ items[i].code = code}
    IN IF hit = {} THEN 0 ELSE CHOOSE i \in hit : \A k \in hit : i <= k

\* The payload finalize_estimated_close builds for one snapshot.
FinalizePayload(d, s, est_nav) ==
    LET cost == FMul(s.shares_end, s.avg_cost_nav_end)
        est_value == FMul(s.shares_end, est_nav)
        est_pnl == FAdd(FSub(est_value, cost), s.realized_pnl_end)
    IN [date |-> d, code |-> s.code,
        shares_end |-> s.shares_end,
        avg_cost_nav_end |-> s.avg_cost_nav_end,
        realized_pnl_end |-> s.realized_pnl_end,
        estimated_nav_close |-> est_nav,
        estimated_pnl_close |-> est_pnl,
        official_nav |-> None,
        official_pnl |-> None,
        settle_status |-> SETTLE_ESTIMATED_ONLY]

\* A faulty upsert that, on a SETTLED row, also clears the official price.
FinalizeUpsertClearingOfficial(items, d, s, est_nav) ==
    LET idx == find_item_index(items, d, s.code)
        payload == FinalizePayload(d, s, est_nav)
    IN IF idx = 0 THEN Append(items, payload)
       ELSE IF items[idx].settle_status = SETTLE_SETTLED
            THEN [items EXCEPT ![idx].shares_end = s.shares_end,
                               ![idx].avg_cost_nav_end = s.avg_cost_nav_end,
                               ![idx].realized_pnl_end = s.realized_pnl_end,
                               ![idx].official_nav = None]
            ELSE [items EXCEPT ![idx] = payload]

\* A faulty upsert that replaces the row whatever its status.
FinalizeUpsertReplacing(items, d, s, est_nav) ==
    LET idx == find_item_index(items, d, s.code)
        payload == FinalizePayload(d, s, est_nav)
    IN IF idx = 0 THEN Append(items, payload)
       ELSE [items EXCEPT ![idx] = payload]

\* The body of the loop "for s in snapshots" of the updater.
FinalizeUpsert(items, d, s, est_nav) ==
    LET idx == find_item_index(items, d, s.code)
        payload == FinalizePayload(d, s, est_nav)
    IN IF idx = 0 THEN Append(items, payload)
       ELSE IF items[idx].settle_status = SETTLE_SETTLED
            THEN [items EXCEPT ![idx].shares_end = s.shares_end,
                               ![idx].avg_cost_nav_end = s.avg_cost_nav_end,
                               ![idx].realized_pnl_end = s.realized_pnl_end]
            ELSE [items EXCEPT ![idx] = payload]

RECURSIVE FinalizeLoop(_, _, _, _, _)
FinalizeLoop(items, d, snapshots, est_map, i) ==
    IF i > Len(snapshots) THEN items
    ELSE FinalizeLoop(FinalizeUpsert(items, d, snapshots[i], est_map[snapshots[i].code]),
                      d, snapshots, est_map, i + 1)

\* finalize_estimated_close(d) on the local file.  adjs is the journal the
\* snapshot is replayed from; est_map[code] is the est_nav estimate_many
\* returns for the code (0 when it has none).
finalize_estimated_close(items, adjs, d, est_map) ==
    LET snapshots == build_positions_as_of(adjs, d)
        codes == {snapshots[i].code : i \in 1..Len(snapshots)}
    IN IF codes = {}
       THEN SelectSeq(items, LAMBDA it : it.date # d)
       ELSE FinalizeLoop(SelectSeq(items, LAMBDA it : ~(it.date = d /\ it.code \notin codes)),
                         d, snapshots, est_map, 1)

\* The payload of the cloud path for one snapshot: a SETTLED existing row
\* hands over its official_nav, official_pnl and settle_status, nothing else.
CloudFinalizePayload(existing, d, s, est_nav) ==
    LET idx == find_item_index(existing, d, s.code)
        payload == FinalizePayload(d, s, est_nav)
    IN IF idx # 0 /\ existing[idx].settle_status = SETTLE_SETTLED
       THEN [payload EXCEPT !.official_nav = existing[idx].official_nav,
                            !.official_pnl = existing[idx].official_pnl,
                            !.settle_status = SETTLE_SETTLED]
       ELSE payload

\* upsert_rows(..., on_conflict="user_id,date,code") of one row.
upsert_row(rows, payload) ==
    LET idx == find_item_index(rows, payload.date, payload.code)
    IN IF idx = 0 THEN Append(rows, payload) ELSE [rows EXCEPT ![idx] = payload]

RECURSIVE CloudFinalizeLoop(_, _, _, _, _, _)
CloudFinalizeLoop(rows, existing, d, snapshots, est_map, i) ==
    IF i > Len(snapshots) THEN rows
    ELSE CloudFinalizeLoop(
             upsert_row(rows, CloudFinalizePayload(existing, d, snapshots[i],
                                                   est_map[snapshots[i].code])),
             existing, d, snapshots, est_map, i + 1)

\* The deletes of the cloud path: every row of the date when the snapshot has
\* no code, else the rows of the date whose code is not in the snapshot.
CloudFinalizeCleanup(rows, d, codes) ==
    SelectSeq(rows, LAMBDA it : ~(it.date = d /\ it.code \notin codes))

\* finalize_estimated_close(d) on the cloud table, every request succeeding.
cloud_finalize_estimated_close(rows, adjs, d, est_map) ==
    LET snapshots == build_positions_as_of(adjs, d)
        codes == {snapshots[i].code : i \in 1..Len(snapshots)}
    IN CloudFinalizeLoop(CloudFinalizeCleanup(rows, d, codes),
                         CloudFinalizeCleanup(rows, d, codes),
                         d, snapshots, est_map, 1)

\* The body of the loop "for it in items" of settle_day's updater.  off[code]
\* is what fetch_official_nav_for_date(code, date_str) returns (None: no nav
\* of exactly that date).
SettleRow(it, date_str, off) ==
    IF it.date # date_str THEN it
    ELSE IF it.settle_status = SETTLE_SETTLED THEN it
    ELSE IF off[it.code] = None THEN it
    ELSE LET official_nav == off[it.code]
             cost == FMul(it.shares_end, it.avg_cost_nav_end)
             official_value == FMul(it.shares_end, official_nav)
             official_pnl == FAdd(FSub(official_value, cost), it.realized_pnl_end)
         IN [it EXCEPT !.official_nav = official_nav,
                       !.official_pnl = official_pnl,
                       !.settle_status = SETTLE_SETTLED]

\* A faulty settle_day that drops the rows of the date it cannot settle.
SettleDayDroppingUnpriced(items, date_str, off) ==
    LET kept == SelectSeq(items, LAMBDA it :
                    ~(it.date = date_str /\ it.settle_status # SETTLE_SETTLED
                      /\ off[it.code] = None))
        new == [i \in 1..Len(kept) |-> SettleRow(kept[i], date_str, off)]
    IN [items |-> new,
        count |-> Cardinality({i \in 1..Len(kept) : new[i] # kept[i]})]

\* A faulty count that includes the rows already SETTLED.
SettleCountedAgain(items, date_str, off) ==
    {i \in 1..Len(items) : /\ items[i].date = date_str
                           /\ off[items[i].code] # None}

\* The rows for which the loop of settle_day reaches "settled += 1".
SettleCounted(items, date_str, off) ==
    {i \in 1..Len(items) : /\ items[i].date = date_str
                           /\ items[i].settle_status # SETTLE_SETTLED
                           /\ off[items[i].code] # None}

\* settle_day: the new items and the number of rows settled.
settle_day(items, date_str, off) ==
    [items |-> [i \in 1..Len(items) |-> SettleRow(items[i], date_str, off)],
     count |-> Cardinality(SettleCounted(items, date_str, off))]

\* A faulty fetch_official_nav_for_date that takes the latest nav published
\* up to the target date.
FetchOfficialNavUpToDate(navs, target_date) ==
    LET hit == {i \in 1..Len(navs) : navs[i].nav_date <= target_date}
    IN IF hit = {} THEN None
       ELSE navs[CHOOSE i \in hit : \A k \in hit : k <= i].nav

\* fetch_official_nav_for_date: the first nav of the history whose nav_date
\* is the target date (None when there is none).  navs is what
\* fetch_official_navs returns, sorted by nav_date.
fetch_official_nav_for_date(navs, target_date) ==
    LET hit == {i \in 1..Len(navs) : navs[i].nav_date = target_date}
    IN IF hit = {} THEN None
       ELSE navs[CHOOSE i \in hit : \A k \in hit : i <= k].nav

\* settle_day on the cloud table: the loop over the rows of the date has the
\* body of the local updater, and the changed rows are upserted in place.
cloud_settle_day(rows, date_str, off) == settle_day(rows, date_str, off)

RECURSIVE SettlePendingLoop(_, _, _, _, _, _)
SettlePendingLoop(items, today_, max_days_back, offs, i, total) ==
    IF i >= max_days_back THEN [items |-> items, count |-> total]
    ELSE LET d == today_ - i
             r == settle_day(items, d,
                             [c \in Codes |-> IF d \in Days THEN offs[c][d] ELSE None])
         IN SettlePendingLoop(r.items, today_, max_days_back, offs, i + 1, total + r.count)

\* settle_pending_days; offs[code][date] is the official nav of the date, or None.
settle_pending_days(items, today_, max_days_back, offs) ==
    IF items = <<>> THEN [items |-> items, count |-> 0]
    ELSE SettlePendingLoop(items, today_, max_days_back, offs, 0, 0)

\* A faulty probe that counts the rows of today only.
CountPendingToday(items, today_, max_days_back) ==
    Cardinality({i \in 1..Len(items) :
                    /\ items[i].date = today_
                    /\ items[i].settle_status = SETTLE_ESTIMATED_ONLY})

count_pending_settlement(items, today_, max_days_back) ==
    LET days_back == IF max_days_back < 1 THEN 1 ELSE max_days_back
        cutoff == today_ - (days_back - 1)
    IN Cardinality({i \in 1..Len(items) :
                       /\ ~(items[i].date < cutoff)
                       /\ items[i].settle_status = SETTLE_ESTIMATED_ONLY})

-----------------------------------------------------------------------------
(* Accuracy analytics (services/accuracy_service.py) *)

RECURSIVE SumSeq(_, _)
SumSeq(xs, i) == IF i > Len(xs) THEN Zero ELSE FAdd(xs[i], SumSeq(xs, i + 1))

\* The rows of one date, in file order, not older than the cutoff.
RowsOfDate(items, d, cutoff) ==
    IF d < cutoff THEN <<>> ELSE SelectSeq(items, LAMBDA it : it.date = d)

\* The part of portfolio_gap_table's loop "for d, its in by_date.items()" for
\* one date: the row appended for the date, or <<>> when the date is skipped.
PortfolioGapRow(d, its) ==
    LET settled_any == \E i \in 1..Len(its) :
                          /\ its[i].settle_status = SETTLE_SETTLED
                          /\ its[i].official_nav # None
        est_total == SumSeq([i \in 1..Len(its) |->
                                FMul(its[i].shares_end, its[i].estimated_nav_close)], 1)
        off_total == SumSeq([i \in 1..Len(its) |->
                                IF its[i].official_nav # None
                                   /\ its[i].settle_status = SETTLE_SETTLED
                                THEN FMul(its[i].shares_end, its[i].official_nav)
                                ELSE Zero], 1)
        est_ok == Len(its) > 0
        off_ok == settled_any
    IN IF ~settled_any THEN <<>>
       ELSE IF ~(est_ok /\ off_ok) \/ est_total = Zero THEN <<>>
       ELSE LET gap == FSub(off_total, est_total)
                gap_pct == FMul(FSub(FDiv(off_total, est_total), Float(1)), Float(100))
            IN <<[date |-> d, estimated_value_close |-> est_total,
                  official_value |-> off_total, gap |-> gap, gap_pct |-> gap_pct,
                  abs_gap_pct |-> FAbs(gap_pct)]>>

RECURSIVE PortfolioGapFrom(_, _, _)
PortfolioGapFrom(items, cutoff, d) ==
    IF d > LastDay THEN <<>>
    ELSE (IF d \in Days THEN PortfolioGapRow(d, RowsOfDate(items, d, cutoff)) ELSE <<>>)
         \o PortfolioGapFrom(items, cutoff, d + 1)

\* portfolio_gap_table(days_back): the rows sorted by date.
portfolio_gap_table(items, today_, days_back) ==
    PortfolioGapFrom(items, today_ - days_back, 0)

\* portfolio_gap_summary(days_back): count and latest row (0: None).
portfolio_gap_summary(items, today_, days_back) ==
    LET rows == portfolio_gap_table(items, today_, days_back)
        abs_list == [i \in 1..Len(rows) |-> rows[i].abs_gap_pct]
    IN IF rows = <<>>
       THEN [count |-> 0, mae_pct |-> None, max_abs_gap_pct |-> None,
             hit_rate_pct |-> None, latest |-> 0]
       ELSE [count |-> Len(rows),
             mae_pct |-> FDiv(SumSeq(abs_list, 1), Float(Len(rows))),
             max_abs_gap_pct |-> CHOOSE v \in Range(abs_list) :
                                    \A w \in Range(abs_list) : FLe(w, v),
             hit_rate_pct |-> FMul(FDiv(Float(Cardinality({i \in 1..Len(rows) :
                                            FLe(abs_list[i], Rat(3, 10))})),
                                        Float(Len(rows))), Float(100)),
             latest |-> rows[Len(rows)].date]

-----------------------------------------------------------------------------
(* Valuation (services/estimation_service.py, datasources/fund_api.py) *)

METHOD_OFFICIAL_GSZ == "OFFICIAL_GSZ"
METHOD_ETF_IIV == "ETF_IIV"
METHOD_HOLDING_WEIGHTED == "HOLDING_WEIGHTED"
METHOD_FROZEN_NAV == "FROZEN_NAV"

\* settings.GSZ_STALE_SECONDS = 5 * 60
GSZ_STALE_SECONDS == 300

\* A GszQuote: gsz, gszzl, nav (Zero: None) and the age of gztime in seconds;
\* present = FALSE stands for None.
NoQuote == [present |-> FALSE, gsz |-> Zero, gszzl |-> Zero, nav |-> Zero, age |-> 0]

\* _fetch_gsz_quotes_mock for one code (i = 0): base_nav 1.0, pct -0.48,
\* gsz 0.9952, gztime ten minutes ago.
MockQuote ==
    [present |-> TRUE, gsz |-> Rat(622, 625), gszzl |-> Rat(-12, 25), nav |-> Float(1),
     age |-> 600]

\* fetch_gsz_quotes([code]).get(code) with the real data source: real is what
\* _fetch_gsz_one_real returns, NoQuote when the fetch fails.
fetch_gsz_quotes(real) == IF real.present THEN real ELSE MockQuote

\* None for an EstimateResult
NoEstimate ==
    [method |-> "", est_nav |-> Zero, est_change_pct |-> Zero, confidence |-> Zero,
     warning |-> <<>>, suggested_refresh_sec |-> 0, est_age |-> 0, coverage |-> None]

estimate_from_gsz(q, method) ==
    IF q.present /\ FGt(q.gsz, Zero)
    THEN [method |-> method, est_nav |-> q.gsz, est_change_pct |-> q.gszzl,
          confidence |-> Rat(9, 10), warning |-> <<>>, suggested_refresh_sec |-> 10,
          est_age |-> q.age, coverage |-> None]
    ELSE [method |-> METHOD_FROZEN_NAV,
          est_nav |-> IF q.present /\ FGt(q.nav, Zero) THEN q.nav ELSE Zero,
          est_change_pct |-> Zero, confidence |-> Rat(3, 10),
          warning |-> <<"estimate data unavailable, fallback to last nav">>,
          suggested_refresh_sec |-> 60,
          est_age |-> IF q.present THEN q.age ELSE 0, coverage |-> None]

\* The sums of the loop over the holdings; a holding is its weight, whether
\* its stock has a quote, and the quote's change_pct.
RECURSIVE HoldingSums(_, _)
HoldingSums(holdings, i) ==
    IF i > Len(holdings)
    THEN [total_weight |-> Zero, covered_weight |-> Zero, weighted_sum |-> Zero]
    ELSE LET it == holdings[i]
             rest == HoldingSums(holdings, i + 1)
         IN IF FLe(it.weight, Zero) THEN rest
            ELSE IF ~it.quoted
            THEN [rest EXCEPT !.total_weight = FAdd(it.weight, @)]
            ELSE [total_weight |-> FAdd(it.weight, rest.total_weight),
                  covered_weight |-> FAdd(it.weight, rest.covered_weight),
                  weighted_sum |-> FAdd(FMul(it.weight, it.change_pct), rest.weighted_sum)]

\* A faulty _estimate_by_holdings that attaches the coverage warning below
\* 50% instead of below 60%.
EstimateByHoldingsWarnBelow50(holdings, as_of, q, latest_nav) ==
    LET sums == HoldingSums(holdings, 1)
        q_nav == IF q.present /\ FGt(q.nav, Zero) THEN q.nav ELSE Zero
        base_nav == IF FLe(q_nav, Zero) THEN latest_nav ELSE q_nav
    IN IF holdings = <<>> THEN NoEstimate
       ELSE IF FLe(sums.total_weight, Zero) \/ FLe(sums.covered_weight, Zero)
       THEN NoEstimate
       ELSE IF FLe(base_nav, Zero) THEN NoEstimate
       ELSE LET weighted_pct == FDiv(sums.weighted_sum, sums.total_weight)
                coverage == FMul(FDiv(sums.covered_weight, sums.total_weight), Float(100))
            IN [method |-> METHOD_HOLDING_WEIGHTED,
                est_nav |-> FMul(base_nav, FAdd(Float(1), FDiv(weighted_pct, Float(100)))),
                est_change_pct |-> weighted_pct,
                confidence |-> IF FGe(coverage, Float(80)) THEN Rat(3, 4)
                               ELSE IF FGe(coverage, Float(50)) THEN Rat(11, 20)
                               ELSE Rat(7, 20),
                warning |-> (IF FLt(coverage, Float(50))
                             THEN <<"holdings coverage low">> ELSE <<>>)
                            \o (IF as_of THEN <<"holdings as_of">> ELSE <<>>),
                suggested_refresh_sec |-> 10, est_age |-> 0, coverage |-> coverage]

\* _estimate_by_holdings; latest_nav is what _latest_official_nav returns
\* (Zero when there is none), as_of whether the holdings carry a date.
estimate_by_holdings(holdings, as_of, q, latest_nav) ==
    LET sums == HoldingSums(holdings, 1)
        q_nav == IF q.present /\ FGt(q.nav, Zero) THEN q.nav ELSE Zero
        base_nav == IF FLe(q_nav, Zero) THEN latest_nav ELSE q_nav
    IN IF holdings = <<>> THEN NoEstimate
       ELSE IF FLe(sums.total_weight, Zero) \/ FLe(sums.covered_weight, Zero)
       THEN NoEstimate
       ELSE IF FLe(base_nav, Zero) THEN NoEstimate
       ELSE LET weighted_pct == FDiv(sums.weighted_sum, sums.total_weight)
                coverage == FMul(FDiv(sums.covered_weight, sums.total_weight), Float(100))
            IN [method |-> METHOD_HOLDING_WEIGHTED,
                est_nav |-> FMul(base_nav, FAdd(Float(1), FDiv(weighted_pct, Float(100)))),
                est_change_pct |-> weighted_pct,
                confidence |-> IF FGe(coverage, Float(80)) THEN Rat(3, 4)
                               ELSE IF FGe(coverage, Float(50)) THEN Rat(11, 20)
                               ELSE Rat(7, 20),
                warning |-> (IF FLt(coverage, Float(60))
                             THEN <<"holdings coverage low">> ELSE <<>>)
                            \o (IF as_of THEN <<"holdings as_of">> ELSE <<>>),
                suggested_refresh_sec |-> 10, est_age |-> 0, coverage |-> coverage]

\* estIn and estOut before any estimate_one call.
NoInput == [code |-> "none"]
NoOutput == [raised |-> FALSE, result |-> NoEstimate]

\* estimate_one; in holds the code and what the data sources return for it.
\* raised = TRUE: ValueError.
estimate_one(in) ==
    IF in.code = "" THEN [raised |-> TRUE, result |-> NoEstimate]
    ELSE
    LET q == fetch_gsz_quotes(in.real_quote)
        holdings == IF in.is_qdii THEN <<>> ELSE in.holdings
        est == estimate_by_holdings(holdings, in.as_of, q, in.latest_nav)
    IN [raised |-> FALSE,
        result |-> IF in.is_etf THEN estimate_from_gsz(q, METHOD_ETF_IIV)
                   ELSE IF holdings # <<>> /\ est # NoEstimate THEN est
                   ELSE estimate_from_gsz(q, METHOD_OFFICIAL_GSZ)]

\* Codes whose last character is "0" (the mock marks their quote stale).
CodesEndingWith0 == {"510300"}

\* _fetch_gsz_quotes_mock: the quote of the code at index i (from 0).
MockQuoteAt(i, code) ==
    [present |-> TRUE,
     gsz |-> FMul(Rat(100 + (i % 7), 100),
                  FAdd(Float(1), FDiv(Rat(((i % 9) - 4) * 12, 100), Float(100)))),
     gszzl |-> Rat(((i % 9) - 4) * 12, 100),
     nav |-> Rat(100 + (i % 7), 100),
     age |-> IF code \in CodesEndingWith0 \/ i % 5 = 0 THEN 600 ELSE 0]

\* fetch_gsz_quotes(codes) for a batch: every code gets the real quote, or
\* the mock quote when the real fetch returns nothing; when one real fetch
\* raises, every code gets the mock quote of its index.
fetch_gsz_quotes_batch(ins) ==
    IF \E i \in 1..Len(ins) : ins[i].fetch_raises
    THEN [i \in 1..Len(ins) |-> MockQuoteAt(i - 1, ins[i].code)]
    ELSE [i \in 1..Len(ins) |-> fetch_gsz_quotes(ins[i].real_quote)]

\* The choice of estimate_many's loop body once the holdings estimate est
\* (NoEstimate: no holdings object, or None returned) is known.
EstimateManyChoice(in, q, est) ==
    IF in.is_etf THEN estimate_from_gsz(q, METHOD_ETF_IIV)
    ELSE IF est # NoEstimate THEN est
    ELSE estimate_from_gsz(q, METHOD_OFFICIAL_GSZ)

\* The body of estimate_many's loop for one code: holdings are loaded only
\* for the codes that are neither ETF nor QDII.
EstimateManyOne(in, q) ==
    EstimateManyChoice(in, q,
        IF in.is_etf \/ in.is_qdii THEN NoEstimate
        ELSE estimate_by_holdings(in.holdings, in.as_of, q, in.latest_nav))

\* The results of the kept codes, given their quotes.
EstimateManyResults(kept, quotes) ==
    [i \in 1..Len(kept) |->
        [code |-> kept[i].code, result |-> EstimateManyOne(kept[i], quotes[i])]]

\* estimate_many: blank codes are dropped; the result maps each code to its
\* estimate (here: the list of the codes with their estimates).
estimate_many(ins) ==
    EstimateManyResults(SelectSeq(ins, LAMBDA in : in.code # ""),
                        fetch_gsz_quotes_batch(SelectSeq(ins, LAMBDA in : in.code # "")))

-----------------------------------------------------------------------------
(* File lock and update_json (storage/json_store.py), POSIX branch, one path *)

Procs == {1, 2, 3}          \* the processes (or threads) that call update_json

\* The lock file: absent, or holding the pid of its creator; old tells
\* whether its mtime is stale_sec or more in the past.
NoLockFile == [pid |-> 0, old |-> FALSE]
LockExists(f) == f.pid # 0

\* _pid_alive, for the processes of the model: a process is gone once it has
\* died inside update_json.
pid_alive(pcs, pid) == pcs[pid] # "dead"

\* _clear_stale_lock: whether it unlinks the lock file it finds.  When the
\* file is gone the pid reads as 0 and the age as stale_sec + 1.
clear_stale_lock_decides(f, pcs) ==
    IF ~LockExists(f) THEN TRUE
    ELSE ~pid_alive(pcs, f.pid) \/ f.old

-----------------------------------------------------------------------------
(* Collector loop (scripts/intraday_collector.py, main).  A substep is
   modelled by its outcome, done or raising; what the substeps write is
   modelled with the stores. *)

\* The collector before main is called.  stop_requested: whether its owner
\* has asked the running collector to stop; main has no statement that reads
\* such a request.
NotStarted ==
    [pc |-> "stopped", once |-> FALSE, only_trading |-> FALSE, codes_arg |-> FALSE,
     settle_due |-> FALSE, in_trading |-> FALSE, in_close_window |-> FALSE,
     ran |-> {}, failed |-> {}, exit_code |-> 0, stop_requested |-> FALSE]

\* The clock: wall time in seconds, in the collector's time zone.
SecondsPerDay == 24 * 60 * 60
HMS(h, m, s) == (h * 60 + m) * 60 + s
DayOf(ts) == ts \div SecondsPerDay

\* _minutes_of_day(dt): dt.hour * 60 + dt.minute.
minutes_of_day(ts) == (ts % SecondsPerDay) \div 60

MinOf(a, b) == IF a < b THEN a ELSE b
MaxOf(a, b) == IF a > b THEN a ELSE b

\* The settle arguments as main clamps them.
settle_hour(args) == MaxOf(0, MinOf(23, args.settle_hour))
settle_deadline_hour(args) == MaxOf(settle_hour(args) + 1, MinOf(24, args.settle_deadline_hour))
settle_start_min(args) == settle_hour(args) * 60
settle_deadline_min(args) == settle_deadline_hour(args) * 60
settle_retry_sec(args) == MaxOf(60, args.settle_retry_min * 60)
settle_days_back(args) == MaxOf(1, args.settle_days_back)

in_settle_window(args, now_ts) ==
    /\ settle_start_min(args) <= minutes_of_day(now_ts)
    /\ minutes_of_day(now_ts) < settle_deadline_min(args)

\* A faulty timer that is always due.
RetryAlwaysDue(args, now_ts, last_settle_try_ts) == TRUE

retry_due(args, now_ts, last_settle_try_ts) ==
    (now_ts - last_settle_try_ts) >= settle_retry_sec(args)

\* The nightly settlement before main is called.  attempts: the clock of the
\* attempt before the last one and of the last one (0: none); probe: what the
\* pending count probe of the last iteration returned (-1: not called);
\* settle_run: whether that iteration called settle_pending_days; raised:
\* whether its auto settle block raised.
NightlyNotStarted ==
    [running |-> FALSE,
     args |-> [settle_hour |-> 0, settle_deadline_hour |-> 0,
               settle_retry_min |-> 0, settle_days_back |-> 0],
     now_ts |-> 0, last_settle_try_ts |-> 0, attempts |-> <<0, 0>>,
     probe |-> -1, settle_run |-> FALSE, raised |-> FALSE]

\* "if args.once: return code" or "time.sleep(interval); continue".
return_or_sleep(s, code) ==
    IF s.once THEN [s EXCEPT !.pc = "exited", !.exit_code = code]
    ELSE [s EXCEPT !.pc = "sleep"]

\* A faulty handler of the estimate_many error that returns 1 in every mode.
AfterEstimateReturning(s, raises) ==
    IF raises
    THEN [s EXCEPT !.pc = "exited", !.exit_code = 1, !.ran = @ \cup {"estimate_many"},
                   !.failed = @ \cup {"estimate_many"}]
    ELSE [s EXCEPT !.pc = "close", !.ran = @ \cup {"estimate_many"}]

\* The try / except around estimate_many.
after_estimate(s, raises) ==
    IF raises
    THEN return_or_sleep([s EXCEPT !.ran = @ \cup {"estimate_many"},
                                   !.failed = @ \cup {"estimate_many"}], 1)
    ELSE [s EXCEPT !.pc = "close", !.ran = @ \cup {"estimate_many"}]

\* A try / except block around the substep name, entered when cond holds; the
\* loop goes on at next whether the substep raises or not.
guarded_substep(s, name, cond, raises, next) ==
    IF ~cond THEN [s EXCEPT !.pc = next]
    ELSE [s EXCEPT !.pc = next, !.ran = @ \cup {name},
                   !.failed = IF raises THEN @ \cup {name} ELSE @]

-----------------------------------------------------------------------------
(* Intraday store (services/intraday_service.py), one date file *)

Targets == {"510300"}

\* The processes that call the store (two collectors, or a collector and a page).
Callers == {1, 2}

\* intraday_has_close_marker looks at the last 200 points only.
CloseTailWindow == 200

\* The series of a target.  Of its points only the markers matter here: n is
\* the number of points, closes the number of points with marker = CLOSE and
\* last the index of the last of them (0: none).
NoPoints == [n |-> 0, closes |-> 0, last |-> 0]

\* record_intraday_point: one point appended to series[target].
record_intraday_point(series, target, marker) ==
    [series EXCEPT ![target] =
        [n |-> @.n + 1,
         closes |-> IF marker = "CLOSE" THEN @.closes + 1 ELSE @.closes,
         last |-> IF marker = "CLOSE" THEN @.n + 1 ELSE @.last]]

\* intraday_has_close_marker: a CLOSE point among the last 200 points.
intraday_has_close_marker(series, target) ==
    /\ series[target].last > 0
    /\ series[target].last > series[target].n - CloseTailWindow

\* clear_intraday
clear_intraday(series) == [t \in DOMAIN series |-> NoPoints]

\* The collector's clock on a weekday, as hm = dt.hour * 60 + dt.minute.
\* _is_cn_trading_time: 09:30-11:30 and 13:00-15:00.
is_cn_trading_time(hm) == (570 <= hm /\ hm <= 690) \/ (780 <= hm /\ hm <= 900)

\* _is_close_window: within minutes of 15:00.
is_close_window(hm, minutes) ==
    (IF hm >= 15 * 60 THEN hm - 15 * 60 ELSE 15 * 60 - hm) <= minutes

\* The trading day before the collector's first iteration.
\* A probe: the marker appended without the look for an earlier one.
AppendCloseMarkerAlways(series, target) == record_intraday_point(series, target, "CLOSE")

\* intraday_append_close_marker: nothing when the series has a CLOSE point.
intraday_append_close_marker(series, target) ==
    IF intraday_has_close_marker(series, target) THEN series
    ELSE record_intraday_point(series, target, "CLOSE")

\* The loop "for c in codes: intraday_append_close_marker(c, ...)" inside one
\* try: the call for codes[raise_at] raises and ends the loop (0: none does).
RECURSIVE CloseMarkerLoop(_, _, _, _)
CloseMarkerLoop(series, codes, i, raise_at) ==
    IF i > Len(codes) \/ i = raise_at THEN series
    ELSE CloseMarkerLoop(intraday_append_close_marker(series, codes[i]), codes, i + 1, raise_at)

\* The loop "for c in codes: record_intraday_point(c, est)" inside one try.
RECURSIVE SampleLoop(_, _, _, _)
SampleLoop(series, codes, i, raise_at) ==
    IF i > Len(codes) \/ i = raise_at THEN series
    ELSE SampleLoop(record_intraday_point(series, codes[i], ""), codes, i + 1, raise_at)

\* The arguments of the collector: --only-trading and --close-window-min.
DefaultCollectorArgs == [only_trading |-> FALSE, close_window_min |-> 2]

\* The trading day before the collector's first iteration.
DayNotStarted ==
    [args |-> DefaultCollectorArgs, hm |-> 0, iterations |-> 0,
     series |-> [c \in Codes |-> NoPoints],
     last |-> [in_close_window |-> FALSE, codes |-> <<>>, estimated |-> FALSE,
               close_raised |-> FALSE]]

-----------------------------------------------------------------------------
(* User scoping of the stores (storage/paths.py).  A user id is a text; the
   model writes it as the sequence of its characters. *)

\* _DEFAULT_USER_ID
Public == <<"p", "u", "b", "l", "i", "c">>

\* The characters of [a-z0-9_.-] the ids of the model are written with.
AllowedChars == {"b", "c", "i", "l", "p", "u", "1", "2", "_", ".", "-"}

RECURSIVE LStrip(_, _)
LStrip(s, cs) ==
    IF Len(s) > 0 /\ Head(s) \in cs THEN LStrip(Tail(s), cs) ELSE s

RECURSIVE RStrip(_, _)
RStrip(s, cs) ==
    IF Len(s) > 0 /\ s[Len(s)] \in cs THEN RStrip(SubSeq(s, 1, Len(s) - 1), cs) ELSE s

\* str.strip(cs)
StripOf(s, cs) == RStrip(LStrip(s, cs), cs)

\* str.lower()
LowerOf(s) == [i \in 1..Len(s) |-> IF s[i] = "U" THEN "u" ELSE s[i]]

\* re.sub(r"[^a-z0-9_.-]+", "_", s): every maximal run of other characters
\* becomes one "_".  in_run: the character before was part of such a run.
RECURSIVE SubRuns(_, _)
SubRuns(s, in_run) ==
    IF Len(s) = 0 THEN <<>>
    ELSE IF Head(s) \in AllowedChars THEN <<Head(s)>> \o SubRuns(Tail(s), FALSE)
    ELSE (IF in_run THEN <<>> ELSE <<"_">>) \o SubRuns(Tail(s), TRUE)

\* _sanitize_user_id
sanitize_user_id(user_id) ==
    LET cleaned == StripOf(SubRuns(LowerOf(StripOf(user_id, {" "})), FALSE),
                           {".", "_", "-"})
    IN IF Len(cleaned) = 0 THEN Public ELSE cleaned

\* The texts a caller passes to set_active_user: an id as auth_service issues
\* it (u_<phone>), the same written in capitals or with blanks, and texts
\* that sanitise to nothing.
RawUserIds ==
    {<<"u", "_", "1">>, <<"U", "_", "1">>, <<" ", "u", " ", "1">>, <<>>, <<"_", ".">>}

\* No set_active_user call yet: the session holds no id.
NoSession == <<>>

\* current_user_id: the sanitised id of the session, "public" without one.
current_user_id(session_uid) ==
    IF Len(session_uid) > 0 THEN sanitize_user_id(session_uid) ELSE Public

\* With every user in the directory of "public".
UserDataDirShared(session_uid) == Public

\* user_data_dir(): data/users/<uid> of the current user, named by the uid.
user_data_dir(session_uid) == current_user_id(session_uid)

\* The directories under data/users.
UserDirs == {sanitize_user_id(r) : r \in RawUserIds}

\* A store file: missing, or holding "items".
MissingFile == [exists |-> FALSE, items |-> <<>>]
FileOf(items) == [exists |-> TRUE, items |-> items]

\* A user directory before its first use.  The old layout below has no
\* watchlist.json and no daily_ledger.json, so that a missing file and an
\* empty one read the same for ever: those two start empty.
NoUserFiles ==
    [adjustments |-> MissingFile, watchlist |-> FileOf(<<>>),
     daily_ledger |-> FileOf(<<>>), intraday |-> [t \in Targets |-> NoPoints]]

\* data/<filename>: the files of the layout without user directories, here
\* a journal with one entry carried over.
LegacyFiles ==
    [adjustments |-> FileOf(<<[id |-> 1, type |-> "CASH_ADJ", code |-> "510300",
                               effective_date |-> 1, shares |-> Zero, price |-> Zero,
                               cash |-> Float(5), note |-> "dividend",
                               source |-> "manual"]>>),
     watchlist |-> MissingFile,
     daily_ledger |-> MissingFile]

\* _user_file_with_legacy_seed(filename): the user's file, copied from
\* data/<filename> when the user has none and that one exists.
user_file_with_legacy_seed(files, session_uid, filename) ==
    LET uid == user_data_dir(session_uid) IN
    IF ~files[uid][filename].exists /\ LegacyFiles[filename].exists
    THEN [files EXCEPT ![uid][filename] = LegacyFiles[filename]]
    ELSE files

\* ensure_json_file on the seeded path: a missing file is created empty.
EnsureUserFile(files, session_uid, filename) ==
    LET seeded == user_file_with_legacy_seed(files, session_uid, filename)
        uid == user_data_dir(session_uid)
    IN IF seeded[uid][filename].exists THEN seeded
       ELSE [seeded EXCEPT ![uid][filename] = FileOf(<<>>)]

\* The items of the user's file as a read finds them.
UserItems(files, session_uid, filename) ==
    EnsureUserFile(files, session_uid, filename)[user_data_dir(session_uid)][filename].items

\* update_json on the user's file with the items the updater returns.
WriteUserItems(files, session_uid, filename, items) ==
    [EnsureUserFile(files, session_uid, filename)
        EXCEPT ![user_data_dir(session_uid)][filename] = FileOf(items)]

\* The cloud tables, empty.
NoRows == [app_adjustments |-> <<>>, app_watchlist |-> <<>>]

\* get_rows(..., user_id = eq.<uid>): the rows of the user, without the column.
RowsOfUser(rows, uid) ==
    LET mine == SelectSeq(rows, LAMBDA r : r.user_id = uid)
    IN [i \in 1..Len(mine) |-> mine[i].row]

\* delete_rows(..., user_id = eq.<uid>) of the rows that Gone accepts.
DeleteRowsOfUser(rows, uid, Gone(_)) ==
    SelectSeq(rows, LAMBDA r : ~(r.user_id = uid /\ Gone(r.row)))

-----------------------------------------------------------------------------
(* Inputs of the journal operations *)

JCodes == {"510300"}
JPrices == {1, 2}
JSellShares == {Float(2), FAdd(Float(1), SmallExcess)}
JCash == {5}
JNotes == {"dividend", "edit->fix"}
EditSharesEnd == {0, 2}
EditCosts == {2}
EditRealizedEnd == {0, 5}
EditNotes == {NoNote}

\* (type, shares, price, cash, note) of the entries a user appends
TradeInputs ==
    {<<"BUY", Float(1), Float(p), Zero, "trade">> : p \in JPrices}
    \cup {<<"SELL", sh, Float(2), Zero, "trade">> : sh \in JSellShares}
    \cup {<<"CASH_ADJ", Zero, Zero, Float(k), n>> : k \in JCash, n \in JNotes}

\* Rejected trades: an unknown kind, and BUY / SELL with shares or a price
\* that is zero or negative.
MalformedTrades ==
    {<<"DIVIDEND", Float(1), Float(1), Zero, "trade">>,
     <<"BUY", Zero, Float(1), Zero, "trade">>,
     <<"SELL", Float(-1), Float(1), Zero, "trade">>,
     <<"BUY", Float(1), Zero, Zero, "trade">>,
     <<"SELL", Float(1), Float(-1), Zero, "trade">>}

\* The arguments of the position edits.
EditArgs ==
    {<<d, c, Float(sh), Float(ac), Float(rp), note>> :
        d \in Days, c \in JCodes, sh \in EditSharesEnd, ac \in EditCosts,
        rp \in EditRealizedEnd, note \in EditNotes}

\* Rejected edits: no code, a negative target, an empty date and a text that
\* is no date.
MalformedEdits ==
    {<<1, "", Float(2), Float(2), Zero, NoNote>>,
     <<1, "510300", Float(-1), Float(2), Zero, NoNote>>,
     <<1, "510300", Zero, Float(-1), Zero, NoNote>>,
     <<0, "510300", Zero, Float(2), Zero, NoNote>>,
     <<-1, "510300", Zero, Float(2), Zero, NoNote>>}

-----------------------------------------------------------------------------
(* Journal actions: one per operation of the journal and of the edit bridge *)

JournalFrame == UNCHANGED <<ledger, today, auxVars, cloud, estIn, estOut, snapOut, settledKeys>>

AddAdjustment(type, code, effective_date, shares, price, cash, note) ==
    /\ AddArgsValid(type, code, effective_date, shares, price, "manual")
          => Len(journal) < MaxJournal
    /\ journal' = AddAdjustmentCall(journal, type, code, effective_date, shares, price,
                                    cash, note, "manual").items
    /\ JournalFrame

RemoveAdjustment(adj_id) ==
    /\ journal' = remove_adjustment(journal, adj_id)
    /\ JournalFrame

ClearAdjustments ==
    /\ journal' = <<>>
    /\ JournalFrame

RemoveAdjustmentsByCode(code) ==
    /\ journal' = remove_adjustments_by_code(journal, code)
    /\ JournalFrame

RemoveAdjustmentsByCodeDate(code, effective_date, source) ==
    /\ journal' = remove_adjustments_by_code_date(journal, code, effective_date, source)
    /\ JournalFrame

MigrateUiEditSource(code, effective_date) ==
    /\ journal' = migrate_ui_edit_source(journal, code, effective_date)
    /\ JournalFrame

ApplyPositionEdit(effective_date, code, shares_end, avg_cost_nav_end, realized_pnl_end, note) ==
    /\ LET new == ApplyPositionEditCall(journal, effective_date, code, shares_end,
                                        avg_cost_nav_end, realized_pnl_end, note).items
       IN /\ Len(new) <= MaxJournal
          /\ journal' = new
    /\ JournalFrame

\* apply_position_edit with a store call that raises after the removal.
ApplyPositionEditFailing(effective_date, code, shares_end, avg_cost_nav_end, realized_pnl_end, note, fail, rollback_ok) ==
    /\ EditArgsValid(effective_date, code, shares_end, avg_cost_nav_end)
    /\ EditCalls(remove_adjustments_by_code_date(journal, code, effective_date, "ui_edit"),
                 effective_date, code, shares_end, avg_cost_nav_end, realized_pnl_end,
                 note, fail)
    /\ Len(EditPartial(remove_adjustments_by_code_date(journal, code, effective_date, "ui_edit"),
                       effective_date, code, shares_end, avg_cost_nav_end, note, fail))
          < MaxJournal
    /\ journal' = apply_position_edit_failing(journal, effective_date, code, shares_end,
                                              avg_cost_nav_end, note, fail, rollback_ok)
    /\ JournalFrame

\* The initial values of auxVars.
AuxInit ==
    /\ estMany = [inputs |-> <<>>, results |-> <<>>]
    /\ intraday = [t \in Targets |-> NoPoints]
    /\ closePc = [p \in Callers |-> "idle"]
    /\ createdKeys = {}
    /\ cloudLedger = <<>>
    /\ lockFile = NoLockFile
    /\ lockPc = [p \in Procs |-> "idle"]
    /\ lockRead = [p \in Procs |-> {}]
    /\ storeFile = {}
    /\ storeDone = {}
    /\ sched = NotStarted
    /\ nightly = NightlyNotStarted
    /\ published = {}
    /\ session = NoSession
    /\ userFiles = [u \in UserDirs |-> NoUserFiles]
    /\ cloudTables = NoRows
    /\ collectorDay = DayNotStarted
    /\ editRun = NoEditRun
    /\ launcher = NoCollectors

JournalInit ==
    /\ journal = <<>>
    /\ ledger = <<>>
    /\ today = LastDay
    /\ AuxInit
    /\ cloud = <<>>
    /\ estIn = NoInput
    /\ estOut = NoOutput
    /\ snapOut = NoQuery
    /\ settledKeys = {}

JournalNext ==
    \/ \E in \in TradeInputs \cup MalformedTrades, c \in JCodes \cup {""}, d \in Days \cup {0} :
          AddAdjustment(in[1], c, d, in[2], in[3], in[4], in[5])
    \/ \E id \in 1..MaxJournal : RemoveAdjustment(id)
    \/ ClearAdjustments
    \/ \E c \in JCodes : RemoveAdjustmentsByCode(c)
    \/ \E c \in JCodes, d \in Days, src \in {"", "ui_edit"} :
          RemoveAdjustmentsByCodeDate(c, d, src)
    \/ \E c \in JCodes \cup {""}, d \in Days \cup {0} : MigrateUiEditSource(c, d)
    \/ \E e \in EditArgs \cup MalformedEdits :
          ApplyPositionEdit(e[1], e[2], e[3], e[4], e[5], e[6])
    \/ \E d \in Days, c \in JCodes, sh \in EditSharesEnd, ac \in EditCosts,
          rp \in EditRealizedEnd, note \in EditNotes, fail \in EditFailures,
          rollback_ok \in BOOLEAN :
          ApplyPositionEditFailing(d, c, Float(sh), Float(ac), Float(rp), note, fail,
                                   rollback_ok)

SpecJournal == JournalInit /\ [][JournalNext]_vars

-----------------------------------------------------------------------------
(* Ledger actions: estimate finalization and settlement, with the journal
   operations that change the snapshot they read *)

EstNavs == {0, 1}
OfficialNavs == {2}
MaxDaysBack == 2
FinalizeDays == {LastDay}      \* the dates the user closes

LedgerTrades == {<<"BUY", Float(1), Float(1), Zero, "trade">>}

\* The (date, code) keys of the rows that are SETTLED.
SettledRows(items) ==
    {<<items[i].date, items[i].code>> : i \in {k \in 1..Len(items) :
                                                items[k].settle_status = SETTLE_SETTLED}}

EstimatedOnlyRows(items) ==
    {<<items[i].date, items[i].code>> : i \in {k \in 1..Len(items) :
                                                items[k].settle_status = SETTLE_ESTIMATED_ONLY}}

RowOf(items, d, code) == items[find_item_index(items, d, code)]

\* The codes of the snapshot of date d.
SnapshotCodes(items, d) ==
    LET snapshots == build_positions_as_of(items, d)
    IN {snapshots[i].code : i \in 1..Len(snapshots)}

\* The (date, code) keys of the rows.
RowKeys(items) == {<<items[i].date, items[i].code>> : i \in 1..Len(items)}

FinalizeEstimatedClose(d, est_map) ==
    /\ ledger' = finalize_estimated_close(ledger, journal, d, est_map)
    /\ createdKeys' = createdKeys \cup RowKeys(ledger')
    /\ UNCHANGED <<journal, today, cloud, estIn, estOut, snapOut, settledKeys>>
    /\ UNCHANGED <<valuationAux, intradayAux, cloudAux, lockAux, schedAux, nightlyAux, userAux, markerAux, editAux, launchAux>>

SettleDay(date_str, off) ==
    /\ ledger' = settle_day(ledger, date_str, off).items
    /\ settledKeys' = settledKeys \cup SettledRows(ledger')
    /\ UNCHANGED <<journal, today, auxVars, cloud, estIn, estOut, snapOut>>

SettlePendingDays(max_days_back, offs) ==
    /\ ledger' = settle_pending_days(ledger, today, max_days_back, offs).items
    /\ settledKeys' = settledKeys \cup SettledRows(ledger')
    /\ UNCHANGED <<journal, today, auxVars, cloud, estIn, estOut, snapOut>>

\* The nav histories the provider can publish for one code: any subset of
\* the days, in the order of the dates.
NavHistories ==
    {SelectSeq([d \in 1..LastDay |-> [nav_date |-> d, nav |-> Float(v)]],
               LAMBDA x : x.nav_date \in ds) : ds \in SUBSET Days, v \in OfficialNavs}

\* settle_day(date_str) with the nav histories navs[code] of the provider.
SettleDayFetching(date_str, navs) ==
    SettleDay(date_str, [c \in Codes |-> fetch_official_nav_for_date(navs[c], date_str)])

\* One finalize_estimated_close(d) call, whatever the estimates.
FinalizeStep(d) ==
    \E e \in EstNavs : FinalizeEstimatedClose(d, [c \in Codes |-> Float(e)])

\* The requests of the cloud path that can fail.
CloudFailures == {"none", "get_rows", "upsert_rows"}

\* finalize_estimated_close(d) in the strict web cloud mode: a failed request
\* raises and the local file is not touched; the deletes issued before a
\* failed upsert stay done.
CloudFinalizeEstimatedClose(d, est_map, fail) ==
    /\ cloudLedger' =
          IF fail = "none"
          THEN cloud_finalize_estimated_close(cloudLedger, journal, d, est_map)
          ELSE IF fail = "get_rows" THEN cloudLedger
          ELSE CloudFinalizeCleanup(cloudLedger, d, SnapshotCodes(journal, d))
    /\ UNCHANGED <<journal, ledger, today, cloud, estIn, estOut, snapOut, settledKeys>>
    /\ UNCHANGED <<valuationAux, intradayAux, historyAux, lockAux, schedAux, nightlyAux, userAux, markerAux, editAux, launchAux>>

\* settle_day(date_str) in the strict web cloud mode; a failed request raises
\* before any row is written.
CloudSettleDay(date_str, off, fail) ==
    /\ cloudLedger' = IF fail = "none" THEN cloud_settle_day(cloudLedger, date_str, off).items
                      ELSE cloudLedger
    /\ UNCHANGED <<journal, ledger, today, cloud, estIn, estOut, snapOut, settledKeys>>
    /\ UNCHANGED <<valuationAux, intradayAux, historyAux, lockAux, schedAux, nightlyAux, userAux, markerAux, editAux, launchAux>>

\* One finalize_estimated_close(d) call in cloud mode, whatever the estimates
\* and the failures.
CloudFinalizeStep(d) ==
    \E e \in EstNavs, fail \in CloudFailures :
        CloudFinalizeEstimatedClose(d, [c \in Codes |-> Float(e)], fail)

CloudLedgerNext ==
    \/ \E in \in LedgerTrades, c \in Codes, d \in Days :
          AddAdjustment(in[1], c, d, in[2], in[3], in[4], in[5])
    \/ \E id \in 1..MaxJournal : RemoveAdjustment(id)
    \/ \E d \in FinalizeDays : CloudFinalizeStep(d)
    \/ \E d \in FinalizeDays, fail \in CloudFailures,
          off \in [Codes -> {None} \cup {Float(v) : v \in OfficialNavs}] :
          CloudSettleDay(d, off, fail)

SpecCloudLedger == JournalInit /\ [][CloudLedgerNext]_vars

Init == JournalInit

Next ==
    \/ \E in \in LedgerTrades, c \in Codes, d \in Days :
          AddAdjustment(in[1], c, d, in[2], in[3], in[4], in[5])
    \/ \E id \in 1..MaxJournal : RemoveAdjustment(id)
    \/ ClearAdjustments
    \/ \E d \in FinalizeDays : FinalizeStep(d)
    \/ \E d \in Days, navs \in [Codes -> NavHistories] : SettleDayFetching(d, navs)
    \/ \E n \in 1..MaxDaysBack,
          offs \in [Codes -> [Days -> {None} \cup {Float(v) : v \in OfficialNavs}]] :
          SettlePendingDays(n, offs)

Spec == Init /\ [][Next]_vars

-----------------------------------------------------------------------------
(* Properties of the ledger *)

HasRow(items, d, code) == find_item_index(items, d, code) # 0

\* The row of (d, code) is SETTLED in items2 with the official fields it has in items1.
OfficialKept(items1, items2, d, code) ==
    /\ HasRow(items2, d, code)
    /\ RowOf(items2, d, code).settle_status = SETTLE_SETTLED
    /\ RowOf(items2, d, code).official_nav = RowOf(items1, d, code).official_nav
    /\ RowOf(items2, d, code).official_pnl = RowOf(items1, d, code).official_pnl

C13_RowsNeverDeleted ==
    [][RowKeys(ledger) \subseteq RowKeys(ledger')]_vars

\* C13, amended: settle_day and settle_pending_days delete no row; a row
\* disappears only in finalize_estimated_close of its date, when its code is
\* not in the snapshot of the date.
C13_RowsDeletedOnlyWithSnapshot ==
    [][\A k \in RowKeys(ledger) \ RowKeys(ledger') :
          /\ FinalizeStep(k[1])
          /\ k[2] \notin SnapshotCodes(journal, k[1])]_vars

\* A row that was never SETTLED has been created and is gone, and a later
\* settlement step has run on the ledger without it.
C13_Witness ==
    /\ \E k \in createdKeys \ settledKeys : ~HasRow(ledger, k[1], k[2])
    /\ settledKeys # {}

\* The estimate and official fields and the status of the rows r1 and r2 agree.
SettledFieldsKept(r1, r2) ==
    /\ r2.estimated_nav_close = r1.estimated_nav_close
    /\ r2.estimated_pnl_close = r1.estimated_pnl_close
    /\ r2.official_nav = r1.official_nav
    /\ r2.official_pnl = r1.official_pnl
    /\ r2.settle_status = r1.settle_status

\* Every SETTLED row of date d in items1 that is still in items2 has kept its
\* estimate fields, its official fields and its status.
FinalizeKeepsSettledFields(items1, items2, d) ==
    \A i \in 1..Len(items1) :
        (/\ items1[i].date = d
         /\ items1[i].settle_status = SETTLE_SETTLED
         /\ HasRow(items2, d, items1[i].code))
        => SettledFieldsKept(items1[i], RowOf(items2, d, items1[i].code))

\* C14 as stated: finalize_estimated_close(date) changes, of an existing
\* SETTLED row, neither estimated_nav_close, estimated_pnl_close, official_nav,
\* official_pnl nor settle_status, on the local file and on the cloud table.
C14_FinalizeSettledRowFrame ==
    [][\A d \in FinalizeDays :
          /\ FinalizeStep(d) => FinalizeKeepsSettledFields(ledger, ledger', d)
          /\ CloudFinalizeStep(d)
                => FinalizeKeepsSettledFields(cloudLedger, cloudLedger', d)]_vars

\* The local-file half of C14 alone.
C14_LocalPathOnly ==
    [][\A d \in FinalizeDays :
          FinalizeStep(d) => FinalizeKeepsSettledFields(ledger, ledger', d)]_vars

\* The navs of the history published for exactly the date d.
\* The gain identity of a settled row.
GainIdentity(it) ==
    it.official_pnl = FAdd(FSub(FMul(it.shares_end, it.official_nav),
                                FMul(it.shares_end, it.avg_cost_nav_end)),
                           it.realized_pnl_end)

\* C35 as stated: every SETTLED row of the ledger has official_pnl =
\* shares_end * official_nav - shares_end * avg_cost_nav_end +
\* realized_pnl_end, also after finalize_estimated_close has refreshed the
\* position fields of a SETTLED row.
C35_SettledGainIdentity ==
    \A i \in 1..Len(ledger) :
       ledger[i].settle_status = SETTLE_SETTLED => GainIdentity(ledger[i])

\* The identity holds for every row at the moment it is settled: a row that
\* is SETTLED now and was not before the step satisfies it.
C35_IdentityWhenSettled ==
    [][\A rows \in {ledger'} : \A i \in 1..Len(rows) :
          (/\ rows[i].settle_status = SETTLE_SETTLED
           /\ ~\E j \in 1..Len(ledger) :
                 /\ ledger[j].date = rows[i].date
                 /\ ledger[j].code = rows[i].code
                 /\ ledger[j].settle_status = SETTLE_SETTLED)
          => GainIdentity(rows[i])]_vars

-----------------------------------------------------------------------------
(* The ledger when the user closes any day of the calendar: the date of
   finalize_estimated_close comes from the date input of the ledger page
   (app/pages/02_日结.py: 72-80), which is not held to today. *)

PendingInit ==
    /\ journal = <<>>
    /\ ledger = <<>>
    /\ today \in Days
    /\ AuxInit
    /\ cloud = <<>>
    /\ estIn = NoInput
    /\ estOut = NoOutput
    /\ snapOut = NoQuery
    /\ settledKeys = {}

OfficialPrices == [Codes -> [Days -> {None} \cup {Float(v) : v \in OfficialNavs}]]

PendingNext ==
    \/ \E in \in LedgerTrades, c \in Codes, d \in Days :
          AddAdjustment(in[1], c, d, in[2], in[3], in[4], in[5])
    \/ \E d \in Days : FinalizeStep(d)
    \/ \E n \in 1..MaxDaysBack, offs \in OfficialPrices : SettlePendingDays(n, offs)

SpecPending == PendingInit /\ [][PendingNext]_vars

\* The ESTIMATED_ONLY rows count_pending_settlement(n) counts all have an
\* official nav of their date.
CountedRowsPriced(items, today_, n, offs) ==
    \A i \in 1..Len(items) :
       (/\ ~(items[i].date < today_ - (n - 1))
        /\ items[i].settle_status = SETTLE_ESTIMATED_ONLY)
       => offs[items[i].code][items[i].date] # None

\* The total settle_pending_days(n) returns is the pending count before the
\* call minus the pending count after it.
PendingTotalIsDifference(items, today_, n, offs, after) ==
    after.count = count_pending_settlement(items, today_, n)
                     - count_pending_settlement(after.items, today_, n)

\* C36 as stated: for every ledger, every n and every availability of
\* official navs, the total of settle_pending_days(n) is the pending count
\* before minus the pending count after, and when every counted row has an
\* official nav of its date the pending count is 0 after the call.
C36_SettleCoversCountedRows ==
    \A n \in 1..MaxDaysBack, offs \in OfficialPrices :
       \A after \in {settle_pending_days(ledger, today, n, offs)} :
          /\ PendingTotalIsDifference(ledger, today, n, offs, after)
          /\ CountedRowsPriced(ledger, today, n, offs)
                => count_pending_settlement(after.items, today, n) = 0

\* What holds: the total is the difference of the counts, and the count is 0
\* after the call when every counted row is priced and none is dated after
\* today.
C36_SettleCoversRowsUpToToday ==
    \A n \in 1..MaxDaysBack, offs \in OfficialPrices :
       \A after \in {settle_pending_days(ledger, today, n, offs)} :
          /\ PendingTotalIsDifference(ledger, today, n, offs, after)
          /\ (/\ CountedRowsPriced(ledger, today, n, offs)
              /\ \A i \in 1..Len(ledger) : ledger[i].date <= today)
                => count_pending_settlement(after.items, today, n) = 0

NavsOfDate(navs, d) == {navs[k].nav : k \in {j \in 1..Len(navs) : navs[j].nav_date = d}}

\* The row it after its settlement at the price official.
SettledAt(it, official) ==
    [it EXCEPT !.settle_status = SETTLE_SETTLED,
               !.official_nav = official,
               !.official_pnl = FAdd(FSub(FMul(it.shares_end, official),
                                          FMul(it.shares_end, it.avg_cost_nav_end)),
                                     it.realized_pnl_end)]

\* The postcondition of settle_day(d) on the rows: items1 before, items2 after.
SettleDayPost(items1, items2, d, navs) ==
    /\ Len(items2) = Len(items1)
    /\ \A i \in 1..Len(items1) :
          IF /\ items1[i].date = d
             /\ items1[i].settle_status = SETTLE_ESTIMATED_ONLY
             /\ NavsOfDate(navs[items1[i].code], d) # {}
          THEN \E official \in NavsOfDate(navs[items1[i].code], d) :
                  items2[i] = SettledAt(items1[i], official)
          ELSE items2[i] = items1[i]

\* What settle_day(d) returns on the ledger with the nav histories navs.
SettleDayResult(d, navs) ==
    settle_day(ledger, d, [c \in Codes |-> fetch_official_nav_for_date(navs[c], d)])

\* C15: after settle_day(date) every ESTIMATED_ONLY row of the date whose code
\* has an official nav of exactly that date is SETTLED with that nav and
\* official_pnl = shares_end * nav - shares_end * avg_cost_nav_end +
\* realized_pnl_end, every other row is unchanged, and the returned count is
\* the number of rows that went from ESTIMATED_ONLY to SETTLED.  Checked for
\* a settle_day call on every reachable ledger, with every date and histories.
C15_SettleDayPostcondition ==
    \A d \in Days, navs \in [Codes -> NavHistories] :
        /\ SettleDayPost(ledger, SettleDayResult(d, navs).items, d, navs)
        /\ SettleDayResult(d, navs).count
              = Cardinality(SettledRows(SettleDayResult(d, navs).items)
                            \ SettledRows(ledger))

\* A settle_day has settled one row of a date and has left another row of the
\* same date ESTIMATED_ONLY.
C15_Witness ==
    \E i, k \in 1..Len(ledger) :
        /\ ledger[i].date = ledger[k].date
        /\ ledger[i].settle_status = SETTLE_SETTLED
        /\ ledger[i].official_nav = Float(2)
        /\ ledger[i].official_pnl = FSub(FMul(ledger[i].shares_end, Float(2)),
                                         FMul(ledger[i].shares_end,
                                              ledger[i].avg_cost_nav_end))
        /\ ledger[k].settle_status = SETTLE_ESTIMATED_ONLY
        /\ ledger[k].estimated_nav_close = ledger[i].estimated_nav_close

\* Whether the rows on hold, for date d, exactly one row per code of the
\* snapshot of d, with the snapshot's position fields, and no other row of d.
RowsMatchSnapshot(rows, adjs, d) ==
    /\ \A c \in SnapshotCodes(adjs, d) :
          /\ Cardinality({i \in 1..Len(rows) : rows[i].date = d /\ rows[i].code = c}) = 1
          /\ \A i \in 1..Len(rows) :
                (rows[i].date = d /\ rows[i].code = c) =>
                   /\ rows[i].shares_end = SnapshotOf(adjs, d, c).shares_end
                   /\ rows[i].avg_cost_nav_end = SnapshotOf(adjs, d, c).avg_cost_nav_end
                   /\ rows[i].realized_pnl_end = SnapshotOf(adjs, d, c).realized_pnl_end
    /\ \A i \in 1..Len(rows) : rows[i].date = d => rows[i].code \in SnapshotCodes(adjs, d)

NoDuplicateKeys(rows) ==
    \A i, k \in 1..Len(rows) :
       (rows[i].date = rows[k].date /\ rows[i].code = rows[k].code) => i = k

\* C26: finalize_estimated_close(d), called on any reachable ledger and
\* journal, leaves exactly one row of d per code of the snapshot of d with the
\* snapshot's shares_end, avg_cost_nav_end and realized_pnl_end, no row of d
\* for another code, and the rows of the other dates as they were; and no
\* reachable ledger holds two rows of one (date, code).
C26_FinalizeAlignsRowsToSnapshot ==
    /\ NoDuplicateKeys(ledger)
    /\ \A d \in Days, e \in EstNavs :
          \A rows \in {finalize_estimated_close(ledger, journal, d, [c \in Codes |-> Float(e)])} :
             /\ RowsMatchSnapshot(rows, journal, d)
             /\ NoDuplicateKeys(rows)
             /\ SelectSeq(rows, LAMBDA it : it.date # d)
                   = SelectSeq(ledger, LAMBDA it : it.date # d)

\* A ledger finalized for the last day with the rows of two codes, one of
\* them SETTLED, aligned to a journal of two entries.
C26_Witness ==
    /\ Len(journal) = 2
    /\ Len(ledger) = 2
    /\ RowsMatchSnapshot(ledger, journal, LastDay)
    /\ \E i \in 1..Len(ledger) : ledger[i].settle_status = SETTLE_SETTLED

\* The official navs per code and date, as nav histories serve them.
OffsOf(navs) == [c \in Codes |-> [d \in Days |-> fetch_official_nav_for_date(navs[c], d)]]

\* C27: with the same official navs, a second settle_day(date) directly after
\* the first settles no row, returns 0 and leaves every row as the first call
\* left it; and so does a second settle_pending_days after the first.
\* Checked for calls on every reachable ledger.
C27_SettleIdempotent ==
    \A navs \in [Codes -> NavHistories] :
       /\ \A d \in Days :
             \A r1 \in {SettleDayResult(d, navs)} :
                \A r2 \in {settle_day(r1.items, d, [c \in Codes |-> OffsOf(navs)[c][d]])} :
                   r2.count = 0 /\ r2.items = r1.items
       /\ \A n \in 1..MaxDaysBack :
             \A p1 \in {settle_pending_days(ledger, today, n, OffsOf(navs))} :
                \A p2 \in {settle_pending_days(p1.items, today, n, OffsOf(navs))} :
                   p2.count = 0 /\ p2.items = p1.items

\* A ledger whose two rows of a date have been settled: a further settle_day
\* with navs for both codes finds nothing to do.
C27_Witness ==
    /\ Len(ledger) = 2
    /\ \A i \in 1..Len(ledger) : ledger[i].settle_status = SETTLE_SETTLED
    /\ settle_day(ledger, LastDay, [c \in Codes |-> Float(2)]).count = 0
    /\ settledKeys = RowKeys(ledger)

\* C3 as stated: a date is in portfolio_gap_table only if every ledger row of
\* the date is SETTLED.
C3_GapDateAllSettled ==
    \A days_back \in 0..MaxDaysBack :
       LET rows == portfolio_gap_table(ledger, today, days_back)
       IN \A r \in 1..Len(rows) : \A i \in 1..Len(ledger) :
             ledger[i].date = rows[r].date => ledger[i].settle_status = SETTLE_SETTLED

-----------------------------------------------------------------------------
(* Properties of the journal and of the edit bridge *)

ApplyEdit(items, e) == apply_position_edit(items, e[1], e[2], e[3], e[4], e[5], e[6])

\* The number of system-edit entries of (code, effective_date).
UiEditCount(items, code, effective_date) ==
    Cardinality({i \in 1..Len(items) : /\ items[i].code = code
                                       /\ items[i].effective_date = effective_date
                                       /\ items[i].source = "ui_edit"})

\* The malformed calls of add_adjustment, class by class: an unknown kind, no
\* code, no effective date, BUY / SELL with shares <= 0 or with a price <= 0.
MalformedAdds ==
    {<<in[1], "510300", 1, in[2], in[3], in[4], in[5]>> : in \in MalformedTrades}
    \cup {<<"BUY", "", 1, Float(1), Float(1), Zero, "trade">>,
          <<"CASH_ADJ", "", 1, Zero, Zero, Float(5), "dividend">>,
          <<"BUY", "510300", 0, Float(1), Float(1), Zero, "trade">>,
          <<"CASH_ADJ", "510300", 0, Zero, Zero, Float(5), "dividend">>}

\* C28: a malformed call leaves the journal as it is.  add_adjustment with an
\* unknown kind, without code, without effective date, or for BUY / SELL with
\* shares <= 0 or price <= 0, raises and adds no entry; apply_position_edit
\* without code, with negative target shares, with a negative target cost or
\* with an invalid date raises before an entry is deleted or appended.
\* Checked for calls on every reachable journal.
C28_RejectedInputLeavesJournal ==
    /\ \A a \in MalformedAdds :
          AddAdjustmentCall(journal, a[1], a[2], a[3], a[4], a[5], a[6], a[7], "manual")
             = [raised |-> TRUE, items |-> journal]
    /\ \A e \in MalformedEdits :
          ApplyPositionEditCall(journal, e[1], e[2], e[3], e[4], e[5], e[6])
             = [raised |-> TRUE, items |-> journal]

\* A journal with a system-edit entry of day 1 that a valid edit of that day
\* would delete, on which the malformed calls are rejected.
C28_Witness ==
    /\ UiEditCount(journal, "510300", 1) > 0
    /\ \E e \in EditArgs : e[1] = 1 /\ ApplyEdit(journal, e) # journal
    /\ \A e \in MalformedEdits :
          ApplyPositionEditCall(journal, e[1], e[2], e[3], e[4], e[5], e[6]).raised

\* The step from items to next appended one entry dated after d.
AppendedLater(items, next, d) ==
    /\ Len(next) = Len(items) + 1
    /\ SubSeq(next, 1, Len(items)) = items
    /\ next[Len(next)].effective_date > d

\* The step from items to next removed one entry dated after d.
RemovedLater(items, next, d) ==
    \E i \in 1..Len(items) :
       /\ items[i].effective_date > d
       /\ next = remove_adjustment(items, items[i].id)

\* C30: a step that appends an entry whose effective_date is later than d, or
\* removes such an entry, leaves build_positions_as_of_safe(d) as it was,
\* positions and warnings.
C30_LaterEntriesLeaveSnapshot ==
    [][\A next \in {journal'} : \A d \in Days :
          (AppendedLater(journal, next, d) \/ RemovedLater(journal, next, d))
             => build_positions_as_of_safe(next, d) = build_positions_as_of_safe(journal, d)]_vars

\* A journal whose last entry is dated after the first one, with a position
\* held on the earlier day.
C30_Witness ==
    /\ Len(journal) = MaxJournal
    /\ journal[Len(journal)].effective_date > journal[1].effective_date
    /\ build_positions_as_of_safe(journal, journal[1].effective_date).positions # <<>>
    /\ build_positions_as_of_safe(journal, LastDay)
          # build_positions_as_of_safe(journal, journal[1].effective_date)

\* C4: for every reachable journal and every edit, applying the edit a second
\* time gives the same snapshot of every date (positions and warnings) and the
\* same number of system-edit entries for (date, code) as applying it once.
C4_ApplyEditIdempotent ==
    \A e \in EditArgs :
       \A once \in {ApplyEdit(journal, e)} : \A twice \in {ApplyEdit(once, e)} :
          /\ \A d \in Days : build_positions_as_of_safe(twice, d)
                                = build_positions_as_of_safe(once, d)
          /\ UiEditCount(twice, e[2], e[1]) = UiEditCount(once, e[2], e[1])

\* The journal holds a manual trade and a system-edit entry over it, and it is
\* what the edit gives when it is applied again: same snapshots, same count.
C4_Witness ==
    \E e \in EditArgs : \A again \in {ApplyEdit(journal, e)} :
       /\ UiEditCount(journal, e[2], e[1]) >= 1
       /\ \E i \in 1..Len(journal) : journal[i].source = "manual"
       /\ UiEditCount(again, e[2], e[1]) = UiEditCount(journal, e[2], e[1])
       /\ \A d \in Days : build_positions_as_of_safe(again, d)
                             = build_positions_as_of_safe(journal, d)

\* C16 as stated: after apply_position_edit(date, code, shares_end, ...,
\* realized_pnl_end) the snapshot of the date has, for the code, the target
\* shares_end and the target realized_pnl_end, whatever the journal was.
C16_EditReachesSharesAndRealized ==
    \A e \in EditArgs : \A after \in {ApplyEdit(journal, e)} :
       \A snap \in {SnapshotOf(after, e[1], e[2])} :
          /\ FLe(FAbs(FSub(snap.shares_end, e[3])), Eps9)
          /\ FLe(FAbs(FSub(snap.realized_pnl_end, e[5])), Eps6)

\* The journal is the outcome of an edit over a manual entry of the code dated
\* on or before the edit: it holds that entry and system-edit entries of the
\* edit date, the manual entries alone give another position, and the
\* snapshot of the date has the target shares and realized gain.
C16_Witness ==
    \E e \in EditArgs :
       /\ \E i \in 1..Len(journal) : /\ journal[i].source = "manual"
                                      /\ journal[i].code = e[2]
                                      /\ journal[i].effective_date <= e[1]
       /\ UiEditCount(journal, e[2], e[1]) = Len(journal) - 1
       /\ SnapshotOf(SelectSeq(journal, LAMBDA a : a.source = "manual"), e[1], e[2]).shares_end
             # e[3]
       /\ SnapshotOf(journal, e[1], e[2]).shares_end = e[3]
       /\ SnapshotOf(journal, e[1], e[2]).realized_pnl_end = e[5]
       /\ FGt(e[3], Zero)

\* C17 as stated: after apply_position_edit with shares_end > 0 the snapshot
\* of the date has, for the code, the target avg_cost_nav_end.
C17_EditReachesAvgCost ==
    \A e \in EditArgs : \A after \in {ApplyEdit(journal, e)} :
       FGt(e[3], Zero) =>
          FLe(FAbs(FSub(SnapshotOf(after, e[1], e[2]).avg_cost_nav_end, e[4])), Eps9)

\* The journal after the edit e fails at the call fail and the rollback completes.
FailedEdit(items, e, fail) ==
    apply_position_edit_failing(items, e[1], e[2], e[3], e[4], e[6], fail, TRUE)

\* The entries of (code, effective_date) written by the edit bridge or its
\* rollback, without their ids.
UiEditContents(items, code, effective_date) ==
    {[type |-> items[i].type, shares |-> items[i].shares, price |-> items[i].price,
      cash |-> items[i].cash, note |-> items[i].note] :
        i \in {k \in 1..Len(items) : /\ items[k].code = code
                                      /\ items[k].effective_date = effective_date
                                      /\ looks_like_ui_edit(items[k])}}

\* C18 as stated: when a store call of apply_position_edit raises after the
\* earlier edit entries of (date, code) were removed and the rollback runs to
\* its end, the journal holds those entries again and none of the failed
\* edit, and the snapshot of every date is what it was before the call.
C18_RollbackRestoresSnapshots ==
    \A e \in EditArgs, fail \in EditFailures :
       EditCalls(remove_adjustments_by_code_date(journal, e[2], e[1], "ui_edit"),
                 e[1], e[2], e[3], e[4], e[5], e[6], fail)
       => \A after \in {FailedEdit(journal, e, fail)} :
             /\ UiEditContents(after, e[2], e[1]) = UiEditContents(journal, e[2], e[1])
             /\ \A d \in Days : build_positions_as_of_safe(after, d).positions
                                   = build_positions_as_of_safe(journal, d).positions

\* C5 as stated: remove_adjustments_by_code_date(code, date, "ui_edit") keeps
\* every entry whose source is manual, whatever its note.
C5_RemoveUiEditKeepsManual ==
    \A c \in JCodes, d \in Days :
       LET after == remove_adjustments_by_code_date(journal, c, d, "ui_edit")
       IN \A i \in 1..Len(journal) :
             journal[i].source = "manual"
                => \E k \in 1..Len(after) : after[k].id = journal[i].id

\* C8 as stated: every position of every snapshot of a reachable journal has
\* shares_end >= 0.
C8_SharesEndNonNegative ==
    \A d \in Days :
       LET snaps == build_positions_as_of(journal, d)
       IN \A i \in 1..Len(snaps) : FGe(snaps[i].shares_end, Zero)

-----------------------------------------------------------------------------
(* Replay of stored journals: the journal is any file add_adjustment can have
   written, and the action is one snapshot query *)

MaxReplayLen == 3

Entry(type, code, effective_date, shares, price, cash) ==
    [id |-> 0, type |-> type, code |-> code, effective_date |-> effective_date,
     shares |-> shares, price |-> price, cash |-> cash, note |-> "trade",
     source |-> "manual"]

\* demo_adjustments_snapshot.py: BUY 1000 @ 4.50, CASH_ADJ +5, SELL 200 @ 4.70
ExampleEntries ==
    <<Entry("BUY", "510300", 1, Float(1000), Rat(9, 2), Zero),
      Entry("CASH_ADJ", "510300", 1, Zero, Zero, Float(5)),
      Entry("SELL", "510300", 2, Float(200), Rat(47, 10), Zero)>>

ReplayEntrySet ==
    Range(ExampleEntries)
    \cup {Entry("BUY", "510300", 1, Float(1), Float(1), Zero),
          Entry("SELL", "510300", 1, Float(2), Float(2), Zero),
          Entry("SELL", "510300", 2, FAdd(Float(1), SmallExcess), Float(2), Zero),
          Entry("BUY", "000001", 2, Float(1), Float(2), Zero)}

\* The stored items: entry i of the file has its own id.
WithIds(es) == [i \in 1..Len(es) |-> [es[i] EXCEPT !.id = i]]

ReplayJournals ==
    {WithIds(es) : es \in UNION {[1..n -> ReplayEntrySet] : n \in 0..MaxReplayLen}}

\* One call of build_positions_as_of_safe(target_date); the query keeps the
\* entries it replayed and the states of its loop for inspection.
SnapshotQuery(target_date) ==
    /\ snapOut' = [date |-> target_date,
                   entries |-> ReplayEntries(journal, target_date),
                   trace |-> ReplayTrace(ReplayEntries(journal, target_date)),
                   result |-> build_positions_as_of_safe(journal, target_date)]
    /\ UNCHANGED <<journal, ledger, today, auxVars, cloud, estIn, estOut, settledKeys>>

ReplayInit0 ==
    /\ journal \in ReplayJournals
    /\ ledger = <<>>
    /\ today = LastDay
    /\ AuxInit
    /\ cloud = <<>>
    /\ estIn = NoInput
    /\ estOut = NoOutput
    /\ snapOut = NoQuery
    /\ settledKeys = {}

ReplayNext == \E d \in Days : SnapshotQuery(d)

SpecReplay == ReplayInit0 /\ [][ReplayNext]_vars

\* C6 as stated: a SELL whose shares exceed the shares held sells exactly the
\* shares held (shares become 0), adds (price - avg_cost) x held shares to the
\* realized gain, and adds exactly one warning, which names the entry's id;
\* the replay goes on with the next entry.
C6_OverSellClamped ==
    snapOut.date # 0 =>
       \A k \in 1..Len(snapOut.entries) :
          LET a == snapOut.entries[k]
              s == snapOut.trace[k]
              t == snapOut.trace[k + 1]
          IN (a.type = "SELL" /\ FGt(a.shares, s.shares[a.code])) =>
                /\ t.shares[a.code] = Zero
                /\ t.realized[a.code] =
                      FAdd(s.realized[a.code],
                           FMul(FSub(a.price, s.avg_cost[a.code]), s.shares[a.code]))
                /\ Len(t.warnings) = Len(s.warnings) + 1
                /\ t.warnings[Len(t.warnings)].id = a.id
                /\ Len(snapOut.trace) = Len(snapOut.entries) + 1

\* The rule of one entry of the reference fold: BUY, SELL within the shares
\* held, CASH_ADJ; s is the state before the entry, t the state after it.
ReferenceRule(a, s, t) ==
    LET c == a.code IN
    /\ \A o \in Codes \ {c} : /\ t.shares[o] = s.shares[o]
                              /\ t.avg_cost[o] = s.avg_cost[o]
                              /\ t.realized[o] = s.realized[o]
    /\ a.type = "BUY" =>
          /\ t.shares[c] = FAdd(s.shares[c], a.shares)
          /\ FMul(t.avg_cost[c], t.shares[c]) =
                FAdd(FMul(s.avg_cost[c], s.shares[c]), FMul(a.price, a.shares))
          /\ t.realized[c] = s.realized[c]
    /\ (a.type = "SELL" /\ FLe(a.shares, s.shares[c])) =>
          /\ t.shares[c] = FSub(s.shares[c], a.shares)
          /\ t.realized[c] =
                FAdd(s.realized[c], FMul(FSub(a.price, s.avg_cost[c]), a.shares))
          /\ FGt(t.shares[c], Zero) => t.avg_cost[c] = s.avg_cost[c]
    /\ a.type = "CASH_ADJ" =>
          /\ t.realized[c] = FAdd(s.realized[c], a.cash)
          /\ t.shares[c] = s.shares[c]
          /\ t.avg_cost[c] = s.avg_cost[c]

\* C9: the replay of a date takes the entries up to the date in journal order
\* (effective_date, then insertion), starts from nothing, applies the
\* reference rule of each entry (a SELL beyond the shares held is the over-sell
\* case), and returns the final shares, average cost and realized gain; the
\* journal BUY 1000 @ 4.50, CASH_ADJ +5, SELL 200 @ 4.70 gives 800, 4.50, 45.
C9_ReplayIsReferenceFold ==
    snapOut.date # 0 =>
       LET es == snapOut.entries
           tr == snapOut.trace
           out == snapOut.result.positions
           last == tr[Len(tr)]
       IN /\ {es[k].id : k \in 1..Len(es)} =
                {journal[i].id : i \in {j \in 1..Len(journal) :
                                          journal[j].effective_date <= snapOut.date}}
          /\ \A k \in 1..(Len(es) - 1) :
                \/ es[k].effective_date < es[k + 1].effective_date
                \/ /\ es[k].effective_date = es[k + 1].effective_date
                   /\ es[k].id < es[k + 1].id
          /\ Len(tr) = Len(es) + 1
          /\ \A c \in Codes : /\ tr[1].shares[c] = Zero
                              /\ tr[1].avg_cost[c] = Zero
                              /\ tr[1].realized[c] = Zero
          /\ \A k \in 1..Len(es) : ReferenceRule(es[k], tr[k], tr[k + 1])
          /\ \A i \in 1..Len(out) :
                /\ out[i].shares_end = last.shares[out[i].code]
                /\ out[i].avg_cost_nav_end = last.avg_cost[out[i].code]
                /\ out[i].realized_pnl_end = last.realized[out[i].code]
          /\ \A c \in Codes :
                FGt(last.shares[c], Zero) => \E i \in 1..Len(out) : out[i].code = c
          /\ (journal = WithIds(ExampleEntries) /\ snapOut.date = 2) =>
                out = <<[code |-> "510300", shares_end |-> Float(800),
                         avg_cost_nav_end |-> Rat(9, 2),
                         realized_pnl_end |-> Float(45)]>>

\* The example journal has been replayed as of its last date.
C9_Witness ==
    /\ snapOut.date # 0
    /\ journal = WithIds(ExampleEntries)
    /\ snapOut.date = 2
    /\ Len(snapOut.result.positions) = 1
    /\ snapOut.result.positions[1].shares_end = Float(800)

-----------------------------------------------------------------------------
(* Replay of journals with entries that add_adjustment refuses: a file of an
   older version or one written by hand *)

\* Entries of an unknown kind and SELL entries without shares or without a
\* price, next to entries the replay applies.
StoredEntrySet ==
    {Entry("BUY", "510300", 1, Float(1), Float(1), Zero),
     Entry("SELL", "510300", 2, Float(2), Float(2), Zero),
     Entry("CASH_ADJ", "000001", 1, Zero, Zero, Float(5)),
     Entry("DIVIDEND", "510300", 1, Float(1), Float(1), Float(5)),
     Entry("", "000001", 2, Zero, Zero, Zero),
     Entry("SELL", "510300", 1, Zero, Float(2), Zero),
     Entry("SELL", "510300", 2, Float(1), Float(-1), Zero)}

StoredJournals ==
    {WithIds(es) : es \in UNION {[1..n -> StoredEntrySet] : n \in 0..MaxReplayLen}}

StoredInit ==
    /\ journal \in StoredJournals
    /\ ledger = <<>>
    /\ today = LastDay
    /\ AuxInit
    /\ cloud = <<>>
    /\ estIn = NoInput
    /\ estOut = NoOutput
    /\ snapOut = NoQuery
    /\ settledKeys = {}

SpecReplayStored == StoredInit /\ [][ReplayNext]_vars

\* The entries the loop skips: an unknown kind, and a SELL whose shares or
\* price are not positive.
Skipped(a) ==
    \/ a.type \notin {"BUY", "SELL", "CASH_ADJ"}
    \/ a.type = "SELL" /\ (FLe(a.shares, Zero) \/ FLe(a.price, Zero))

-----------------------------------------------------------------------------
(* Position edits on a journal of two instruments and two dates *)

MaxFrameLen == 3    \* entries the journal holds at most in these runs

\* Manual entries and entries of earlier edits, of both codes and both days;
\* one manual entry carries a note that reads like an edit.
FrameEntrySet ==
    {Entry("BUY", "510300", 1, Float(1), Float(1), Zero),
     Entry("BUY", "000001", 1, Float(1), Float(2), Zero),
     Entry("SELL", "000001", 2, Float(2), Float(2), Zero),
     [Entry("BUY", "510300", 2, Float(1), Float(2), Zero)
         EXCEPT !.source = "ui_edit", !.note = "edit->BUY"],
     [Entry("CASH_ADJ", "000001", 2, Zero, Zero, Float(5))
         EXCEPT !.source = "ui_edit", !.note = "edit->CASH_ADJ"],
     [Entry("CASH_ADJ", "510300", 1, Zero, Zero, Float(5)) EXCEPT !.note = "edit->fix"]}

FrameJournals == {WithIds(es) : es \in UNION {[1..n -> FrameEntrySet] : n \in 0..2}}

\* The edits of both codes.
FrameEdits ==
    {<<d, c, Float(sh), Float(ac), Float(rp), NoNote>> :
        d \in Days, c \in Codes, sh \in EditSharesEnd, ac \in EditCosts,
        rp \in EditRealizedEnd}

FrameInit ==
    /\ journal \in FrameJournals
    /\ ledger = <<>>
    /\ today = LastDay
    /\ AuxInit
    /\ cloud = <<>>
    /\ estIn = NoInput
    /\ estOut = NoOutput
    /\ snapOut = NoQuery
    /\ settledKeys = {}

\* One apply_position_edit call.
EditStoredJournal(e) ==
    /\ LET new == ApplyEdit(journal, e)
       IN /\ Len(new) <= MaxFrameLen
          /\ journal' = new
    /\ JournalFrame

FrameNext == \E e \in FrameEdits : EditStoredJournal(e)

SpecEditFrame == FrameInit /\ [][FrameNext]_vars

\* The entries of another code or of another date, in stored order.
OtherEntries(items, effective_date, code) ==
    SelectSeq(items, LAMBDA it : it.code # code \/ it.effective_date # effective_date)

\* The position of a code in a snapshot, as a set (empty: no position).
PositionsOfCode(snap, code) ==
    {snap.positions[i] : i \in {k \in 1..Len(snap.positions) : snap.positions[k].code = code}}

-----------------------------------------------------------------------------
(* A position edit next to another session that reads the journal.  The
   store calls of apply_position_edit are separate calls of the journal
   store (edit_bridge_service.py: 75, 85-103, 113-120); each of them is atomic
   under the store's own lock, and nothing spans them. *)

EditRunFrame ==
    UNCHANGED <<ledger, today, cloud, estIn, estOut, snapOut, settledKeys,
                valuationAux, intradayAux, historyAux, cloudAux, lockAux, schedAux,
                nightlyAux, userAux, markerAux, launchAux>>

\* apply_position_edit up to the return of remove_adjustments_by_code_date.
EditRemoveOld(e) ==
    /\ editRun.pc = "idle"
    /\ EditArgsValid(e[1], e[2], e[3], e[4])
    /\ Len(ApplyEdit(journal, e)) <= MaxFrameLen
    /\ journal' = remove_adjustments_by_code_date(journal, e[2], e[1], "ui_edit")
    /\ editRun' = [editRun EXCEPT !.pc = "removed", !.e = e, !.pre = journal]
    /\ EditRunFrame

\* Step 1: the base snapshot is read and the BUY or SELL is added.
EditAddShares ==
    /\ editRun.pc = "removed"
    /\ journal' = EditShares(journal, editRun.e[1], editRun.e[2], editRun.e[3],
                             editRun.e[4], editRun.e[6])
    /\ editRun' = [editRun EXCEPT !.pc = "shares"]
    /\ EditRunFrame

\* Step 2: the snapshot is read again and the CASH_ADJ is added; the call
\* returns.
EditAddRealized ==
    /\ editRun.pc = "shares"
    /\ journal' = EditRealized(journal, editRun.e[1], editRun.e[2], editRun.e[5],
                               editRun.e[6])
    /\ editRun' = [editRun EXCEPT !.pc = "done"]
    /\ EditRunFrame

\* Another session calls list_adjustments() at the head of
\* build_positions_as_of_safe, for a snapshot or for finalize_estimated_close.
OtherSessionReads ==
    /\ editRun.pc # "idle"
    /\ editRun' = [editRun EXCEPT !.read = [during |-> editRun.pc, items |-> journal]]
    /\ UNCHANGED journal
    /\ EditRunFrame

EditRunNext ==
    \/ \E e \in FrameEdits : EditRemoveOld(e)
    \/ EditAddShares
    \/ EditAddRealized
    \/ OtherSessionReads

SpecEditRun == FrameInit /\ [][EditRunNext]_vars

\* C34 as stated: what another session reads while an edit is applied is the
\* journal before the edit or the journal after it, and so is every snapshot
\* it builds from what it read.
C34_ReaderSeesWholeEdit ==
    editRun.read.during # "" =>
       /\ editRun.read.items \in {editRun.pre, ApplyEdit(editRun.pre, editRun.e)}
       /\ \A d \in Days :
             build_positions_as_of_safe(editRun.read.items, d)
                \in {build_positions_as_of_safe(editRun.pre, d),
                     build_positions_as_of_safe(ApplyEdit(editRun.pre, editRun.e), d)}

\* The steps compose to the call: when the edit has returned, the journal is
\* the one apply_position_edit gives for the journal it found.
C34_StepsComposeToEdit ==
    editRun.pc = "done" => journal = ApplyEdit(editRun.pre, editRun.e)

-----------------------------------------------------------------------------
(* Valuation of one instrument: the action is one estimate_one call *)

EstCodes == {"", "510300"}

RealQuotes ==
    {NoQuote}
    \cup {[present |-> TRUE, gsz |-> g, gszzl |-> Rat(1, 2), nav |-> n, age |-> a] :
             g \in {Zero, Rat(47, 10)}, n \in {Zero, Rat(9, 2)}, a \in {0, 600}}

Holding(weight, quoted, change_pct) ==
    [weight |-> Float(weight), quoted |-> quoted, change_pct |-> Float(change_pct)]

HoldingsInputs ==
    {<<>>,
     <<Holding(40, TRUE, 1), Holding(60, FALSE, 0)>>,
     <<Holding(60, TRUE, 1), Holding(40, FALSE, 0)>>,
     <<Holding(80, TRUE, 1), Holding(20, TRUE, -1)>>}

EstimateInputs ==
    [code : EstCodes, real_quote : RealQuotes, is_etf : BOOLEAN, is_qdii : BOOLEAN,
     holdings : HoldingsInputs, as_of : BOOLEAN, latest_nav : {Zero, Float(1)}]

EstimateOne(in) ==
    /\ estIn' = in
    /\ estOut' = estimate_one(in)
    /\ UNCHANGED <<journal, ledger, today, auxVars, cloud, snapOut, settledKeys>>

\* Holdings of 0 (none), 40, 50, 59, 60, 80 and 100 percent coverage.
CoverageHoldings ==
    {<<>>,
     <<Holding(40, TRUE, 1), Holding(60, FALSE, 0)>>,
     <<Holding(50, TRUE, 1), Holding(50, FALSE, 0)>>,
     <<Holding(59, TRUE, 1), Holding(41, FALSE, 0)>>,
     <<Holding(60, TRUE, 1), Holding(40, FALSE, 0)>>,
     <<Holding(80, TRUE, 1), Holding(20, FALSE, 0)>>,
     <<Holding(80, TRUE, 1), Holding(20, TRUE, -1)>>}

ManyQuotes ==
    {NoQuote,
     [present |-> TRUE, gsz |-> Rat(47, 10), gszzl |-> Rat(1, 2), nav |-> Zero, age |-> 0]}

\* What the data sources return for the first code of a batch.
ManyMain ==
    [code : {"510300"}, real_quote : ManyQuotes, fetch_raises : {FALSE},
     is_etf : BOOLEAN, is_qdii : BOOLEAN, holdings : CoverageHoldings,
     as_of : BOOLEAN, latest_nav : {Zero, Float(1)}]

ManyPairFirst ==
    {m \in ManyMain : m.real_quote = NoQuote /\ ~m.as_of /\ ~m.is_qdii
                      /\ m.latest_nav = Zero}

\* A second code of a batch: one whose quote fetch raises, one with a live
\* quote and full coverage, and a blank code.
ManySecond ==
    {[code |-> "000001", real_quote |-> NoQuote, fetch_raises |-> TRUE, is_etf |-> FALSE,
      is_qdii |-> FALSE, holdings |-> <<Holding(40, TRUE, 1), Holding(60, FALSE, 0)>>,
      as_of |-> FALSE, latest_nav |-> Float(1)],
     [code |-> "000001", real_quote |-> [present |-> TRUE, gsz |-> Rat(47, 10),
                                         gszzl |-> Rat(1, 2), nav |-> Rat(9, 2), age |-> 0],
      fetch_raises |-> FALSE, is_etf |-> FALSE, is_qdii |-> FALSE,
      holdings |-> <<Holding(80, TRUE, 1), Holding(20, TRUE, -1)>>,
      as_of |-> TRUE, latest_nav |-> Zero],
     [code |-> "", real_quote |-> NoQuote, fetch_raises |-> FALSE, is_etf |-> FALSE,
      is_qdii |-> FALSE, holdings |-> <<>>, as_of |-> FALSE, latest_nav |-> Zero]}

\* A first code with a live quote, for the batches whose second code fails.
ManyPairLive ==
    {m \in ManyMain : m.real_quote.present /\ ~m.as_of /\ ~m.is_qdii
                      /\ m.latest_nav = Zero /\ m.holdings = <<>>}

ManyBatches ==
    {<<>>} \cup {<<m>> : m \in ManyMain}
    \cup {<<m, s>> : m \in ManyPairFirst, s \in ManySecond}
    \cup {<<m, s>> : m \in ManyPairLive, s \in {x \in ManySecond : x.fetch_raises}}

\* One call of estimate_many.
EstimateMany(ins) ==
    /\ estMany' = [inputs |-> ins, results |-> estimate_many(ins)]
    /\ UNCHANGED <<journal, ledger, today, cloud, estIn, estOut, snapOut, settledKeys>>
    /\ UNCHANGED <<intradayAux, historyAux, cloudAux, lockAux, schedAux, nightlyAux, userAux, markerAux, editAux, launchAux>>

EstimateInit ==
    /\ journal = <<>>
    /\ ledger = <<>>
    /\ today = LastDay
    /\ AuxInit
    /\ cloud = <<>>
    /\ estIn = NoInput
    /\ estOut = NoOutput
    /\ snapOut = NoQuery
    /\ settledKeys = {}

EstimateNext == \E in \in EstimateInputs : EstimateOne(in)

SpecEstimate == EstimateInit /\ [][EstimateNext]_vars

\* Valuation of a batch: the action is one estimate_many call.
EstimateManyNext == \E ins \in ManyBatches : EstimateMany(ins)

SpecEstimateMany == EstimateInit /\ [][EstimateManyNext]_vars

\* The indicative quote is active: a positive value updated within the
\* staleness window.
QuoteActive(q) == q.present /\ FGt(q.gsz, Zero) /\ q.age <= GSZ_STALE_SECONDS

\* C10 as stated: for an ETF whose quote is stale and which has no official
\* fallback price, estimate_one returns FROZEN_NAV with confidence 0.3 and
\* does not raise; the direct-quote tier (ETF_IIV, 0.9) is returned only for
\* an active quote.
C10_StaleEtfQuoteIsFrozen ==
    (estIn # NoInput /\ estIn.code # "" /\ estIn.is_etf) =>
       /\ (/\ estIn.real_quote.present
           /\ estIn.real_quote.age > GSZ_STALE_SECONDS
           /\ estIn.real_quote.nav = Zero
           /\ estIn.latest_nav = Zero) =>
             /\ ~estOut.raised
             /\ estOut.result.method = METHOD_FROZEN_NAV
             /\ estOut.result.confidence = Rat(3, 10)
       /\ estOut.result.method = METHOD_ETF_IIV =>
             /\ estOut.result.confidence = Rat(9, 10)
             /\ QuoteActive(estIn.real_quote)

-----------------------------------------------------------------------------
(* Confidence tiers of the holdings method in a batch *)

\* The covered and the total weight of a holdings list, from the list itself.
CoveredWeightOf(holdings) ==
    SumSeq([i \in 1..Len(holdings) |->
               IF holdings[i].quoted /\ FGt(holdings[i].weight, Zero)
               THEN holdings[i].weight ELSE Zero], 1)

TotalWeightOf(holdings) ==
    SumSeq([i \in 1..Len(holdings) |->
               IF FGt(holdings[i].weight, Zero) THEN holdings[i].weight ELSE Zero], 1)

\* coverage >= pct percent, by cross-multiplication
CoverageAtLeast(holdings, pct) ==
    FGe(FMul(CoveredWeightOf(holdings), Float(100)),
        FMul(Float(pct), TotalWeightOf(holdings)))

\* The input of the batch that result r belongs to.
ManyInputOf(r) ==
    CHOOSE in \in Range(estMany.inputs) : in.code = r.code

\* C11: estimate_many values a non-ETF, non-QDII instrument with covered
\* weight > 0 and a known last official price by the holdings method; a
\* holdings-method result has confidence 0.75 when coverage >= 80%, 0.55 when
\* coverage >= 50%, 0.35 below (so at 40%), reports that coverage, and its
\* warning mentions coverage exactly when coverage is below 60%.
C11_CoverageTiers ==
    \A i \in 1..Len(estMany.results) :
       \A r \in {estMany.results[i]} : \A in \in {ManyInputOf(estMany.results[i])} :
          /\ (/\ ~in.is_etf /\ ~in.is_qdii
              /\ FGt(CoveredWeightOf(in.holdings), Zero)
              /\ FGt(in.latest_nav, Zero))
                => r.result.method = METHOD_HOLDING_WEIGHTED
          /\ r.result.method = METHOD_HOLDING_WEIGHTED =>
                /\ FMul(r.result.coverage, TotalWeightOf(in.holdings))
                      = FMul(CoveredWeightOf(in.holdings), Float(100))
                /\ r.result.confidence =
                      (IF CoverageAtLeast(in.holdings, 80) THEN Rat(3, 4)
                       ELSE IF CoverageAtLeast(in.holdings, 50) THEN Rat(11, 20)
                       ELSE Rat(7, 20))
                /\ ("holdings coverage low" \in Range(r.result.warning))
                      <=> ~CoverageAtLeast(in.holdings, 60)

\* A batch in which an instrument of 40% coverage got the low tier and the
\* coverage warning.
C11_Witness ==
    \E i \in 1..Len(estMany.results) :
       /\ estMany.results[i].result.method = METHOD_HOLDING_WEIGHTED
       /\ estMany.results[i].result.coverage = Float(40)
       /\ estMany.results[i].result.confidence = Rat(7, 20)
       /\ "holdings coverage low" \in Range(estMany.results[i].result.warning)
       /\ Len(estMany.results) = 2

\* The quote fetch of an instrument of the batch failed: it raised, or it
\* returned nothing.
FetchFailed(in) == in.fetch_raises \/ ~in.real_quote.present

\* C24: in a batch, an instrument whose quote fetch failed gets the FROZEN
\* result (change 0, confidence 0.3, a warning) unless its holdings give an
\* estimate; every requested instrument gets a result; and the result of an
\* instrument whose own fetch succeeded is the one it gets when requested
\* alone.
C24_FailedFetchFrozenOthersUnaffected ==
    /\ Len(estMany.results) = Len(SelectSeq(estMany.inputs, LAMBDA in : in.code # ""))
    /\ \A i \in 1..Len(estMany.results) :
          \A r \in {estMany.results[i].result} : \A in \in {ManyInputOf(estMany.results[i])} :
             /\ (FetchFailed(in) /\ r.method # METHOD_HOLDING_WEIGHTED) =>
                   /\ r.method = METHOD_FROZEN_NAV
                   /\ r.est_change_pct = Zero
                   /\ r.confidence = Rat(3, 10)
                   /\ r.warning # <<>>
             /\ ~FetchFailed(in) => r = estimate_many(<<in>>)[1].result

\* The fields of a result that a caller compares.
Valuation(r) ==
    [method |-> r.method, est_nav |-> r.est_nav, est_change_pct |-> r.est_change_pct,
     confidence |-> r.confidence, coverage |-> r.coverage]

\* C38 as stated: in every batch, estimate_many gives each non-blank code the
\* method, price, change, confidence and coverage that estimate_one gives
\* that code on the same data.
C38_ManyAgreesWithOne ==
    \A i \in 1..Len(estMany.results) :
       \A in \in {ManyInputOf(estMany.results[i])} :
          Valuation(estMany.results[i].result) = Valuation(estimate_one(in).result)

\* What holds: the two agree for every code of a batch in which no quote
\* fetch raises.
C38_ManyAgreesUnlessFetchRaises ==
    (\A k \in 1..Len(estMany.inputs) : ~estMany.inputs[k].fetch_raises) =>
       \A i \in 1..Len(estMany.results) :
          \A in \in {ManyInputOf(estMany.results[i])} :
             Valuation(estMany.results[i].result) = Valuation(estimate_one(in).result)

-----------------------------------------------------------------------------
(* Method selection of estimate_one *)

\* The quote estimate_one works with, and whether it is positive.
QuoteOf(in) == fetch_gsz_quotes(in.real_quote)
PositiveQuote(q) == q.present /\ FGt(q.gsz, Zero)

\* The last official price known for the instrument: the nav the quote
\* carries, else the latest nav of the nav history (Zero: none known).
LastOfficialPrice(in) ==
    IF QuoteOf(in).present /\ FGt(QuoteOf(in).nav, Zero) THEN QuoteOf(in).nav
    ELSE in.latest_nav

\* The instrument qualifies for the holdings method.
HoldingsApplicable(in) ==
    /\ ~in.is_etf /\ ~in.is_qdii
    /\ in.holdings # <<>>
    /\ FGt(CoveredWeightOf(in.holdings), Zero)
    /\ FGt(LastOfficialPrice(in), Zero)

\* The method the fallback order selects.
MethodByOrder(in) ==
    IF in.is_etf /\ PositiveQuote(QuoteOf(in)) THEN METHOD_ETF_IIV
    ELSE IF HoldingsApplicable(in) THEN METHOD_HOLDING_WEIGHTED
    ELSE IF PositiveQuote(QuoteOf(in)) THEN METHOD_OFFICIAL_GSZ
    ELSE METHOD_FROZEN_NAV

\* The method selection of C25 without the price of the FROZEN result.
C25_MethodSelection ==
    (estIn # NoInput /\ estIn.code # "") =>
       /\ ~estOut.raised
       /\ estOut.result.method = MethodByOrder(estIn)
       /\ estOut.result.method \in {METHOD_ETF_IIV, METHOD_OFFICIAL_GSZ} =>
             /\ estOut.result.confidence = Rat(9, 10)
             /\ estOut.result.est_nav = QuoteOf(estIn).gsz
       /\ estOut.result.method = METHOD_FROZEN_NAV =>
             /\ estOut.result.est_change_pct = Zero
             /\ estOut.result.confidence = Rat(3, 10)
             /\ estOut.result.warning # <<>>

\* C25: estimate_one selects the method by the fallback order (ETF-like with
\* a positive quote: the quote, confidence 0.9, never the holdings; non-ETF,
\* non-QDII with holdings, covered weight > 0 and a positive base price: the
\* holdings method; else a positive quote; else FROZEN), and a FROZEN result
\* carries the last official price, change 0, confidence 0.3 and a warning.
C25_MethodByFallbackOrder ==
    /\ C25_MethodSelection
    /\ (estIn # NoInput /\ estIn.code # "" /\ estOut.result.method = METHOD_FROZEN_NAV)
          => estOut.result.est_nav = LastOfficialPrice(estIn)

-----------------------------------------------------------------------------
(* Intraday store: samples and close markers written by concurrent callers *)

MaxPoints == 202    \* points a target's series holds at most
MaxCloses == 2      \* CLOSE points after which no further one is written

IntradayFrame ==
    UNCHANGED <<journal, ledger, today, cloud, estIn, estOut, snapOut, settledKeys,
                valuationAux, historyAux, cloudAux, lockAux, schedAux, nightlyAux, userAux, markerAux, editAux, launchAux>>

\* record_intraday_point(target, estimate) without a marker
RecordSample(t) ==
    /\ intraday[t].n < MaxPoints
    /\ intraday' = record_intraday_point(intraday, t, "")
    /\ UNCHANGED closePc
    /\ IntradayFrame

\* intraday_append_close_marker, first half: the read of the series; the
\* caller returns when it sees a CLOSE point and goes on to write otherwise.
CloseCheck(p, t) ==
    /\ closePc[p] = "idle"
    /\ ~intraday_has_close_marker(intraday, t)
    /\ closePc' = [closePc EXCEPT ![p] = t]
    /\ UNCHANGED intraday
    /\ IntradayFrame

\* intraday_append_close_marker, second half: record_intraday_point with
\* marker = CLOSE under update_json.
CloseWrite(p) ==
    /\ closePc[p] # "idle"
    /\ intraday[closePc[p]].n < MaxPoints
    /\ intraday[closePc[p]].closes < MaxCloses
    /\ intraday' = record_intraday_point(intraday, closePc[p], "CLOSE")
    /\ closePc' = [closePc EXCEPT ![p] = "idle"]
    /\ IntradayFrame

ClearIntraday ==
    /\ intraday' = clear_intraday(intraday)
    /\ UNCHANGED closePc
    /\ IntradayFrame

IntradayNext ==
    \/ \E t \in Targets : RecordSample(t)
    \/ \E p \in Callers, t \in Targets : CloseCheck(p, t)
    \/ \E p \in Callers : CloseWrite(p)
    \/ ClearIntraday

SpecIntraday == JournalInit /\ [][IntradayNext]_vars

\* C12 as stated: in every reachable state of the intraday store, every
\* (date, target) has at most one point with marker = CLOSE.
C12_AtMostOneClose == \A t \in Targets : intraday[t].closes <= 1

-----------------------------------------------------------------------------
(* Actions of update_json on one path.  Every process makes one update, the
   append of its own item; the steps are the system calls of _file_lock. *)

LockFrame ==
    UNCHANGED <<journal, ledger, today, cloud, estIn, estOut, snapOut, settledKeys,
                valuationAux, intradayAux, historyAux, cloudAux, schedAux, nightlyAux, userAux, markerAux, editAux, launchAux>>

\* os.open(lock_path, O_CREAT | O_EXCL | O_RDWR) and the write of the pid:
\* the file is created, or FileExistsError leads to _clear_stale_lock.
LockTryCreate(p) ==
    /\ lockPc[p] = "idle"
    /\ p \notin storeDone
    /\ IF LockExists(lockFile)
       THEN lockFile' = lockFile /\ lockPc' = [lockPc EXCEPT ![p] = "stale_check"]
       ELSE /\ lockFile' = [pid |-> p, old |-> FALSE]
            /\ lockPc' = [lockPc EXCEPT ![p] = "read"]
    /\ UNCHANGED <<lockRead, storeFile, storeDone>>
    /\ LockFrame

\* _clear_stale_lock up to its decision: the pid and the age are read.
ClearStaleLockRead(p) ==
    /\ lockPc[p] = "stale_check"
    /\ lockPc' = [lockPc EXCEPT ![p] = IF clear_stale_lock_decides(lockFile, lockPc)
                                      THEN "stale_unlink" ELSE "idle"]
    /\ UNCHANGED <<lockFile, lockRead, storeFile, storeDone>>
    /\ LockFrame

\* lock_path.unlink(missing_ok=True) of _clear_stale_lock, then the sleep
\* and the next turn of the loop.
ClearStaleLockUnlink(p) ==
    /\ lockPc[p] = "stale_unlink"
    /\ lockFile' = NoLockFile
    /\ lockPc' = [lockPc EXCEPT ![p] = "idle"]
    /\ UNCHANGED <<lockRead, storeFile, storeDone>>
    /\ LockFrame

\* ensure_json_file inside the lock: the data is read.
UpdateRead(p) ==
    /\ lockPc[p] = "read"
    /\ lockRead' = [lockRead EXCEPT ![p] = storeFile]
    /\ lockPc' = [lockPc EXCEPT ![p] = "write"]
    /\ UNCHANGED <<lockFile, storeFile, storeDone>>
    /\ LockFrame

\* updater(data) and save_json: the data read, with the item of p, replaces
\* the file.
UpdateWrite(p) ==
    /\ lockPc[p] = "write"
    /\ storeFile' = lockRead[p] \cup {p}
    /\ lockPc' = [lockPc EXCEPT ![p] = "release"]
    /\ UNCHANGED <<lockFile, lockRead, storeDone>>
    /\ LockFrame

\* The finally of _file_lock: the descriptor is closed and the lock path is
\* unlinked, whoever created the file that is there now.
LockRelease(p) ==
    /\ lockPc[p] = "release"
    /\ lockFile' = NoLockFile
    /\ lockPc' = [lockPc EXCEPT ![p] = "idle"]
    /\ storeDone' = storeDone \cup {p}
    /\ UNCHANGED <<lockRead, storeFile>>
    /\ LockFrame

\* stale_sec pass since the lock file was written.
LockAges ==
    /\ LockExists(lockFile)
    /\ ~lockFile.old
    /\ lockFile' = [lockFile EXCEPT !.old = TRUE]
    /\ UNCHANGED <<lockPc, lockRead, storeFile, storeDone>>
    /\ LockFrame

\* A process is killed inside update_json before it writes; its lock file stays.
ProcessDies(p) ==
    /\ lockPc[p] = "read"
    /\ lockPc' = [lockPc EXCEPT ![p] = "dead"]
    /\ UNCHANGED <<lockFile, lockRead, storeFile, storeDone>>
    /\ LockFrame

LockNext ==
    \/ \E p \in Procs : LockTryCreate(p)
    \/ \E p \in Procs : ClearStaleLockRead(p)
    \/ \E p \in Procs : ClearStaleLockUnlink(p)
    \/ \E p \in Procs : UpdateRead(p)
    \/ \E p \in Procs : UpdateWrite(p)
    \/ \E p \in Procs : LockRelease(p)
    \/ LockAges
    \/ \E p \in Procs : ProcessDies(p)

SpecLock == JournalInit /\ [][LockNext]_vars

\* The processes inside the read-update-write section of update_json.
InSection == {p \in Procs : lockPc[p] \in {"read", "write"}}

\* C19 as stated: at most one process is inside the read-update-write section
\* of update_json for the path, and the update of every process whose call has
\* returned is in the file.
C19_MutualExclusionNoLostUpdate ==
    /\ Cardinality(InSection) <= 1
    /\ storeDone \subseteq storeFile

\* The first half alone.
C19_MutualExclusion == Cardinality(InSection) <= 1

\* The second half alone.
C19_NoLostUpdate == storeDone \subseteq storeFile

-----------------------------------------------------------------------------
(* Actions of the collector loop *)

SchedFrame ==
    UNCHANGED <<journal, ledger, today, cloud, estIn, estOut, snapOut, settledKeys,
                valuationAux, intradayAux, historyAux, cloudAux, lockAux, nightlyAux, userAux, markerAux, editAux, launchAux>>

\* main up to the loop: the arguments are parsed and the services imported
\* (return 2 when an import raises).
StartCollector(once, only_trading, codes_arg, import_ok) ==
    /\ sched.pc = "stopped"
    /\ sched' = IF import_ok
                THEN [sched EXCEPT !.pc = "top", !.once = once,
                                   !.only_trading = only_trading, !.codes_arg = codes_arg]
                ELSE [sched EXCEPT !.pc = "exited", !.exit_code = 2]
    /\ SchedFrame

\* The top of "while True": the clock is read.  settle_due: inside the settle
\* window with the retry timer elapsed.
LoopTop(settle_due, in_trading, in_close_window) ==
    /\ sched.pc = "top"
    /\ sched' = [sched EXCEPT !.pc = "settle", !.settle_due = settle_due,
                              !.in_trading = in_trading,
                              !.in_close_window = in_close_window,
                              !.ran = {}, !.failed = {}]
    /\ SchedFrame

\* The evening auto settle block: count_pending_settlement, then
\* settle_pending_days when rows are pending.
AutoSettle(pending, raises) ==
    /\ sched.pc = "settle"
    /\ ~sched.settle_due => (~raises /\ ~pending)
    /\ sched' = guarded_substep(sched, IF pending THEN "settle_pending_days"
                                       ELSE "count_pending_settlement",
                                sched.settle_due, raises, "codes")
    /\ SchedFrame

\* The codes: --codes, else watchlist_list() (an error gives no codes); then
\* the two early sleeps, without codes and outside the trading session.
ResolveCodes(watchlist) ==
    /\ sched.pc = "codes"
    /\ sched.codes_arg => watchlist = "some"
    /\ sched' =
          IF sched.codes_arg
          THEN IF sched.only_trading /\ ~sched.in_trading /\ ~sched.in_close_window
               THEN return_or_sleep(sched, 0)
               ELSE [sched EXCEPT !.pc = "estimate"]
          ELSE IF watchlist # "some"
          THEN return_or_sleep(
                   [sched EXCEPT !.ran = @ \cup {"watchlist_list"},
                                 !.failed = IF watchlist = "raises"
                                            THEN @ \cup {"watchlist_list"} ELSE @], 0)
          ELSE IF sched.only_trading /\ ~sched.in_trading /\ ~sched.in_close_window
          THEN return_or_sleep([sched EXCEPT !.ran = @ \cup {"watchlist_list"}], 0)
          ELSE [sched EXCEPT !.pc = "estimate", !.ran = @ \cup {"watchlist_list"}]
    /\ SchedFrame

\* estimate_many(codes).
EstimateStep(raises) ==
    /\ sched.pc = "estimate"
    /\ sched' = after_estimate(sched, raises)
    /\ SchedFrame

\* The close marker block.
CloseMarkerStep(raises) ==
    /\ sched.pc = "close"
    /\ ~sched.in_close_window => ~raises
    /\ sched' = guarded_substep(sched, "append_close_marker", sched.in_close_window,
                                raises, "sample")
    /\ SchedFrame

\* The sampling block.
SampleStep(raises) ==
    /\ sched.pc = "sample"
    /\ ~sched.in_trading => ~raises
    /\ sched' = guarded_substep(sched, "record_intraday_point", sched.in_trading,
                                raises, "offmarket")
    /\ SchedFrame

\* The off-market refresh block, then "if args.once: return 0".
OffMarketStep(raises) ==
    /\ sched.pc = "offmarket"
    /\ (sched.in_trading \/ sched.in_close_window \/ sched.only_trading) => ~raises
    /\ sched' = return_or_sleep(
                    guarded_substep(sched, "offmarket_nav",
                                    ~sched.in_trading /\ ~sched.in_close_window
                                       /\ ~sched.only_trading,
                                    raises, "offmarket"), 0)
    /\ SchedFrame

\* time.sleep(interval) returns and the loop starts over.
SleepStep ==
    /\ sched.pc = "sleep"
    /\ sched' = [sched EXCEPT !.pc = "top"]
    /\ SchedFrame

\* The owner of the collector asks it to stop, while the collector sleeps
\* between two iterations.
RequestStop ==
    /\ sched.pc = "sleep"
    /\ ~sched.stop_requested
    /\ sched' = [sched EXCEPT !.stop_requested = TRUE]
    /\ SchedFrame

SchedNext ==
    \/ \E once \in BOOLEAN, only_trading \in BOOLEAN, codes_arg \in BOOLEAN,
          import_ok \in BOOLEAN : StartCollector(once, only_trading, codes_arg, import_ok)
    \/ \E settle_due \in BOOLEAN, in_trading \in BOOLEAN, in_close_window \in BOOLEAN :
          LoopTop(settle_due, in_trading, in_close_window)
    \/ \E pending \in BOOLEAN, raises \in BOOLEAN : AutoSettle(pending, raises)
    \/ \E watchlist \in {"some", "empty", "raises"} : ResolveCodes(watchlist)
    \/ \E raises \in BOOLEAN : EstimateStep(raises)
    \/ \E raises \in BOOLEAN : CloseMarkerStep(raises)
    \/ \E raises \in BOOLEAN : SampleStep(raises)
    \/ \E raises \in BOOLEAN : OffMarketStep(raises)
    \/ SleepStep
    \/ RequestStop

SpecScheduler == JournalInit /\ [][SchedNext]_vars

\* The collector is one sequential thread: whenever it has a next statement,
\* it executes it (time.sleep returns).
SpecSchedulerFair == SpecScheduler /\ WF_vars(SchedNext)

\* The positions inside one iteration of the loop.
InIteration == {"settle", "codes", "estimate", "close", "sample", "offmarket"}

\* C20: without --once no step of the loop, whatever substep raises in it,
\* makes main return; an iteration that has started reaches its sleep, and
\* after the sleep the next iteration starts; and when the close marker block
\* is left in the trading session, the sampling block runs next, whether the
\* close marker write raised or not.
C20_FailureNeverStopsLoop ==
    /\ [][(sched.pc \in InIteration \cup {"top", "sleep"} /\ ~sched.once)
            => sched'.pc # "exited"]_vars
    /\ [][(sched.pc = "sample" /\ sched.in_trading)
            => "record_intraday_point" \in sched'.ran]_vars
    /\ \A pos \in InIteration :
          (sched.pc = pos /\ ~sched.once) ~> (sched.pc = "sleep")
    /\ (sched.pc = "sleep") ~> (sched.pc = "settle")

\* C23: once the collector has been asked to stop, the loop exits at the next
\* iteration boundary: from the top of an iteration with the stop requested
\* main returns.
C23_StopExitsAtIterationBoundary ==
    (sched.stop_requested /\ sched.pc = "top") ~> (sched.pc = "exited")

\* An iteration without --once in which the settle block and the close marker
\* write raised, the sampling ran nevertheless, and the sleep is reached.
C20_Witness ==
    /\ sched.pc = "sleep"
    /\ ~sched.once
    /\ {"settle_pending_days", "append_close_marker"} \subseteq sched.failed
    /\ "record_intraday_point" \in sched.ran

-----------------------------------------------------------------------------
(* Cloud mode (supabase_client.is_enabled()): the journal is the table
   app_adjustments; every operation falls back to the local file when its
   cloud request raises.  ok tells whether the request succeeds. *)

\* list_adjustments in cloud mode: the rows of the table ordered by
\* (effective_date, created_at), or the local file when get_rows raises.
cloud_list_adjustments(rows, items, code, ok) ==
    IF ok THEN list_adjustments(rows, code) ELSE list_adjustments(items, code)

\* build_positions_as_of_safe over that listing.
cloud_build_positions_as_of_safe(rows, items, target_date, ok) ==
    LET adjs == SelectSeq(cloud_list_adjustments(rows, items, "", ok),
                          LAMBDA a : a.effective_date <= target_date)
        st == ReplayFold(ReplayInit, adjs, 1)
    IN [positions |-> PositionsOut(st, 1), warnings |-> st.warnings]

CloudFrame == UNCHANGED <<ledger, today, auxVars, estIn, estOut, settledKeys>>

\* add_adjustment: insert_row, or the local updater when it raises.
CloudAddAdjustment(type, code, effective_date, shares, price, cash, note, ok) ==
    /\ Len(cloud) + Len(journal) < MaxJournal
    /\ AddArgsValid(type, code, effective_date, shares, price, "manual")
    /\ LET item == NewItem(cloud \o journal, type, code, effective_date, shares, price,
                           cash, note, "manual")
       IN IF ok THEN cloud' = Append(cloud, item) /\ journal' = journal
          ELSE journal' = Append(journal, item) /\ cloud' = cloud
    /\ snapOut' = NoQuery
    /\ CloudFrame

\* remove_adjustment: delete_rows, or the local updater when it raises.
CloudRemoveAdjustment(adj_id, ok) ==
    /\ IF ok THEN cloud' = remove_adjustment(cloud, adj_id) /\ journal' = journal
       ELSE journal' = remove_adjustment(journal, adj_id) /\ cloud' = cloud
    /\ snapOut' = NoQuery
    /\ CloudFrame

\* clear_adjustments: delete_rows, or the local updater when it raises.
CloudClearAdjustments(ok) ==
    /\ IF ok THEN cloud' = <<>> /\ journal' = journal
       ELSE journal' = <<>> /\ cloud' = cloud
    /\ snapOut' = NoQuery
    /\ CloudFrame

\* One call of build_positions_as_of_safe(target_date) in cloud mode.
CloudSnapshotQuery(target_date, ok) ==
    /\ snapOut' = [date |-> target_date,
                   result |-> cloud_build_positions_as_of_safe(cloud, journal,
                                                               target_date, ok)]
    /\ UNCHANGED <<journal, cloud>>
    /\ CloudFrame

CloudNext ==
    \/ \E in \in LedgerTrades, c \in Codes, d \in Days, ok \in BOOLEAN :
          CloudAddAdjustment(in[1], c, d, in[2], in[3], in[4], in[5], ok)
    \/ \E id \in 1..MaxJournal, ok \in BOOLEAN : CloudRemoveAdjustment(id, ok)
    \/ \E ok \in BOOLEAN : CloudClearAdjustments(ok)
    \/ \E d \in Days, ok \in BOOLEAN : CloudSnapshotQuery(d, ok)

SpecCloud == JournalInit /\ [][CloudNext]_vars

\* The ids of a listing.
IdsOf(items) == {items[i].id : i \in 1..Len(items)}

\* C37 as stated: every entry that an add_adjustment call has stored, in the
\* table or in the file, and that no call has deleted since, is returned by
\* list_adjustments() whether the cloud answers that call or not.
C37_StoredEntriesAlwaysListed ==
    \A ok \in BOOLEAN :
       IdsOf(cloud) \cup IdsOf(journal) \subseteq IdsOf(cloud_list_adjustments(cloud, journal, "", ok))

\* What a listing returns is the content of the one store it reads: the
\* table when the cloud answers, the file when it does not.
C37_ListingReadsOneStore ==
    \A ok \in BOOLEAN :
       IdsOf(cloud_list_adjustments(cloud, journal, "", ok)) = IdsOf(IF ok THEN cloud ELSE journal)

\* C7 as stated: two calls of build_positions_as_of_safe for the same date,
\* with no change of the journal's stores between them, return the same
\* positions and the same warnings.
C7_ReplayDeterministic ==
    [][(/\ snapOut.date # 0
        /\ snapOut'.date = snapOut.date
        /\ journal' = journal
        /\ cloud' = cloud) => snapOut'.result = snapOut.result]_vars


-----------------------------------------------------------------------------
(* Nightly settlement of the collector loop (scripts/intraday_collector.py,
   main, the "Evening auto settle" block), with the clock and the ledger *)

\* The settle arguments the collector is started with: the defaults' window
\* and retry interval; arguments out of range that main clamps to a one hour
\* window, a one minute retry interval and a one day trailing window; and a
\* retry interval longer than the window.
CollectorArgs ==
    {[settle_hour |-> 20, settle_deadline_hour |-> 24, settle_retry_min |-> 30,
      settle_days_back |-> MaxDaysBack],
     [settle_hour |-> 20, settle_deadline_hour |-> 10, settle_retry_min |-> 0,
      settle_days_back |-> 0],
     [settle_hour |-> 20, settle_deadline_hour |-> 21, settle_retry_min |-> 120,
      settle_days_back |-> 1]}

\* The instants at which an iteration can read the clock.
TimesOfDay ==
    {HMS(19, 59, 59), HMS(20, 0, 0), HMS(20, 0, 59), HMS(20, 30, 0), HMS(21, 0, 0)}
ClockDays == {LastDay, LastDay + 1}
Instants == {d * SecondsPerDay + t : d \in ClockDays, t \in TimesOfDay}

\* What the nav provider serves: the official nav of the published dates.
PublishedNavs ==
    [c \in Codes |-> [d \in Days |-> IF d \in published
                                     THEN Float(CHOOSE v \in OfficialNavs : TRUE)
                                     ELSE None]]

NightlyFrame ==
    UNCHANGED <<journal, cloud, estIn, estOut, snapOut,
                valuationAux, intradayAux, historyAux, cloudAux, lockAux, schedAux, userAux, markerAux, editAux, launchAux>>

\* main is called with the settle arguments; last_settle_try_ts = 0.0.
StartNightly(args) ==
    /\ ~nightly.running
    /\ nightly' = [nightly EXCEPT !.running = TRUE, !.args = args,
                                  !.now_ts = today * SecondsPerDay]
    /\ UNCHANGED <<ledger, today, settledKeys, published>>
    /\ NightlyFrame

\* The provider publishes the official nav of a date.
PublishNav(d) ==
    /\ d \notin published
    /\ published' = published \cup {d}
    /\ UNCHANGED <<ledger, today, settledKeys, nightly>>
    /\ NightlyFrame

\* One iteration of "while True" that reads the clock at now_ts, as far as
\* the auto settle block goes.  fail: "probe", count_pending_settlement
\* raises; "settle", settle_pending_days raises before it saves a row.
NightlyIteration(now_ts, fail) ==
    /\ nightly.running
    /\ now_ts > nightly.now_ts
    /\ LET a == nightly.args
           due == /\ in_settle_window(a, now_ts)
                  /\ retry_due(a, now_ts, nightly.last_settle_try_ts)
           pending_count == count_pending_settlement(ledger, DayOf(now_ts), settle_days_back(a))
           probed == due /\ fail # "probe"
           runs == probed /\ pending_count > 0
       IN /\ fail = "probe" => due
          /\ fail = "settle" => runs
          /\ today' = DayOf(now_ts)
          /\ ledger' = IF runs /\ fail # "settle"
                       THEN settle_pending_days(ledger, DayOf(now_ts), settle_days_back(a),
                                                PublishedNavs).items
                       ELSE ledger
          /\ nightly' = [nightly EXCEPT
                            !.now_ts = now_ts,
                            !.last_settle_try_ts = IF due THEN now_ts ELSE @,
                            !.attempts = IF due THEN <<@[2], now_ts>> ELSE @,
                            !.probe = IF probed THEN pending_count ELSE -1,
                            !.settle_run = runs,
                            !.raised = (fail # "none")]
    /\ settledKeys' = settledKeys \cup SettledRows(ledger')
    /\ UNCHANGED published
    /\ NightlyFrame

NightlyNext ==
    \/ \E in \in LedgerTrades, c \in JCodes, d \in Days :
          AddAdjustment(in[1], c, d, in[2], in[3], in[4], in[5])
    \/ \E d \in FinalizeDays : FinalizeStep(d)
    \/ \E d \in Days : PublishNav(d)
    \/ \E args \in CollectorArgs : StartNightly(args)
    \/ \E now_ts \in Instants, fail \in {"none", "probe", "settle"} :
          NightlyIteration(now_ts, fail)

SpecNightly == JournalInit /\ [][NightlyNext]_vars

\* C21: every settlement attempt is made at a time of day from settle_hour
\* (inclusive) to settle_deadline_hour (exclusive); two consecutive attempts,
\* whether they succeeded or failed, are at least the retry interval apart;
\* and settle_pending_days is called only after the pending count probe
\* returned more than 0.
C21_AttemptsInWindowAndSpaced ==
    LET a == nightly.args
        prev == nightly.attempts[1]
        last == nightly.attempts[2]
    IN /\ last # 0 =>
             /\ settle_hour(a) * 60 * 60 <= last % SecondsPerDay
             /\ last % SecondsPerDay < settle_deadline_hour(a) * 60 * 60
       /\ (prev # 0 /\ last # 0) => last - prev >= settle_retry_sec(a)
       /\ nightly.settle_run => nightly.probe > 0

\* A second attempt, the retry interval after the first, whose probe found
\* pending rows and that ran settle_pending_days.
C21_Witness ==
    /\ nightly.attempts[1] # 0
    /\ nightly.attempts[2] - nightly.attempts[1] = settle_retry_sec(nightly.args)
    /\ nightly.settle_run
    /\ nightly.probe > 0
    /\ settledKeys # {}


\* The collector that keeps iterating: it reads the clock at every instant,
\* one after the other.
NextInstant(ts) == CHOOSE t \in Instants : t > ts /\ \A u \in Instants : u > ts => t <= u

SteadyIteration ==
    \E fail \in {"none", "probe", "settle"} :
       /\ \E t \in Instants : t > nightly.now_ts
       /\ NightlyIteration(NextInstant(nightly.now_ts), fail)

NightlySteadyNext ==
    \/ \E in \in LedgerTrades, c \in JCodes, d \in Days :
          AddAdjustment(in[1], c, d, in[2], in[3], in[4], in[5])
    \/ \E d \in FinalizeDays : FinalizeStep(d)
    \/ \E d \in Days : PublishNav(d)
    \/ \E args \in CollectorArgs : StartNightly(args)
    \/ SteadyIteration

\* The collector is one sequential thread: after its sleep the next iteration
\* starts.
SpecNightlyFair == JournalInit /\ [][NightlySteadyNext]_vars /\ WF_vars(SteadyIteration)

\* The dates settle_pending_days visits on a day: today - i, i < max_days_back.
InTrailingWindow(date, day, args) ==
    date <= day /\ date >= day - (settle_days_back(args) - 1)

\* An instant lies ahead that is inside the nightly window on a day whose
\* trailing window holds the date.
WindowAhead(date) ==
    \E t \in Instants :
       /\ t > nightly.now_ts
       /\ in_settle_window(nightly.args, t)
       /\ InTrailingWindow(date, DayOf(t), nightly.args)

\* The same, with the retry timer elapsed at that instant.
AttemptAhead(date) ==
    \E t \in Instants :
       /\ t > nightly.now_ts
       /\ in_settle_window(nightly.args, t)
       /\ retry_due(nightly.args, t, nightly.last_settle_try_ts)
       /\ InTrailingWindow(date, DayOf(t), nightly.args)

PendingPublished(k) ==
    /\ nightly.running
    /\ k \in EstimatedOnlyRows(ledger)
    /\ k[1] \in published

-----------------------------------------------------------------------------
(* The stores of several users: every operation runs under the user id of
   the session and reaches the files of user_data_dir() and the cloud rows
   with user_id = current_user_id(). *)

\* How a call finds the cloud store: not enabled, answering, or raising.
StoreModes == {"local", "cloud", "cloud_raises"}

\* The codes put on a watchlist.
WatchCodes == {"159915"}

MaxUserItems == 2    \* journal entries one user holds at most, file and table together
MaxUserPoints == 1   \* intraday points one user records at most
MaxStored == 2       \* entries, codes, rows and points all users hold at most

\* The number of entries, watched codes, ledger rows and intraday points that
\* the files and the tables hold.
StoredIn(files) ==
    Len(files.adjustments.items) + Len(files.watchlist.items)
    + Len(files.daily_ledger.items)
    + Cardinality({t \in Targets : files.intraday[t].n > 0})

RECURSIVE StoredInDirs(_)
StoredInDirs(dirs) ==
    IF dirs = {} THEN 0
    ELSE LET u == CHOOSE x \in dirs : TRUE
         IN StoredIn(userFiles[u]) + StoredInDirs(dirs \ {u})

StoredTotal ==
    Len(cloudTables.app_adjustments) + Len(cloudTables.app_watchlist)
    + StoredInDirs(UserDirs)

UserFrame ==
    UNCHANGED <<journal, ledger, today, cloud, estIn, estOut, snapOut, settledKeys,
                valuationAux, intradayAux, historyAux, cloudAux, lockAux, schedAux,
                nightlyAux, markerAux, editAux, launchAux>>

\* set_active_user: the session keeps the sanitised id.
SetActiveUser(user_id) ==
    /\ session' = sanitize_user_id(user_id)
    /\ UNCHANGED <<userFiles, cloudTables>>
    /\ UserFrame

\* list_adjustments() of the session's user: the user's rows of the table, or
\* the user's file when the cloud is not enabled or get_rows raises.
user_list_adjustments(files, tables, session_uid, mode) ==
    IF mode = "cloud"
    THEN list_adjustments(RowsOfUser(tables.app_adjustments,
                                     current_user_id(session_uid)), "")
    ELSE list_adjustments(UserItems(files, session_uid, "adjustments"), "")

\* Every entry the user holds, in the table and in the file.
UserEntries(files, tables, session_uid) ==
    RowsOfUser(tables.app_adjustments, current_user_id(session_uid))
        \o UserItems(files, session_uid, "adjustments")

\* add_adjustment under the session's user.
UserAddAdjustment(type, code, effective_date, shares, price, cash, note, mode) ==
    /\ StoredTotal < MaxStored
    /\ Len(UserEntries(userFiles, cloudTables, session)) < MaxUserItems
    /\ AddArgsValid(type, code, effective_date, shares, price, "manual")
    /\ LET item == NewItem(UserEntries(userFiles, cloudTables, session), type, code,
                           effective_date, shares, price, cash, note, "manual")
       IN IF mode = "cloud"
          THEN /\ cloudTables' = [cloudTables EXCEPT !.app_adjustments =
                                     Append(@, [user_id |-> current_user_id(session),
                                                row |-> item])]
               /\ userFiles' = userFiles
          ELSE /\ userFiles' = WriteUserItems(userFiles, session, "adjustments",
                                   Append(UserItems(userFiles, session, "adjustments"),
                                          item))
               /\ cloudTables' = cloudTables
    /\ session' = session
    /\ UserFrame

\* remove_adjustment under the session's user.
UserRemoveAdjustment(adj_id, mode) ==
    /\ IF mode = "cloud"
       THEN /\ cloudTables' = [cloudTables EXCEPT !.app_adjustments =
                                  DeleteRowsOfUser(@, current_user_id(session),
                                                   LAMBDA r : r.id = adj_id)]
            /\ userFiles' = userFiles
       ELSE /\ userFiles' = WriteUserItems(userFiles, session, "adjustments",
                                remove_adjustment(UserItems(userFiles, session,
                                                            "adjustments"), adj_id))
            /\ cloudTables' = cloudTables
    /\ session' = session
    /\ UserFrame

\* clear_adjustments under the session's user.
UserClearAdjustments(mode) ==
    /\ IF mode = "cloud"
       THEN /\ cloudTables' = [cloudTables EXCEPT !.app_adjustments =
                                  DeleteRowsOfUser(@, current_user_id(session),
                                                   LAMBDA r : TRUE)]
            /\ userFiles' = userFiles
       ELSE /\ userFiles' = WriteUserItems(userFiles, session, "adjustments", <<>>)
            /\ cloudTables' = cloudTables
    /\ session' = session
    /\ UserFrame

\* A page reads list_adjustments(): the read creates the user's file when
\* the file is the one read.
UserListAdjustments(mode) ==
    /\ userFiles' = IF mode = "cloud" THEN userFiles
                    ELSE EnsureUserFile(userFiles, session, "adjustments")
    /\ UNCHANGED <<session, cloudTables>>
    /\ UserFrame

\* _merge_codes: the codes of both lists, each once, in that order.
merge_codes(primary, secondary) ==
    primary \o SelectSeq(secondary,
                         LAMBDA c : \A i \in 1..Len(primary) : primary[i] # c)

\* _load_remote_items
load_remote_items(tables, session_uid) ==
    RowsOfUser(tables.app_watchlist, current_user_id(session_uid))

\* watchlist_list; web: _strict_web_cloud_sync().
watchlist_list(files, tables, session_uid, mode, web) ==
    LET local_items == UserItems(files, session_uid, "watchlist") IN
    IF web /\ mode = "local" THEN <<>>
    ELSE IF mode = "cloud"
         THEN IF web THEN load_remote_items(tables, session_uid)
              ELSE merge_codes(load_remote_items(tables, session_uid), local_items)
    ELSE IF mode = "cloud_raises" THEN (IF web THEN <<>> ELSE local_items)
    ELSE local_items

\* _add_local
add_local(files, session_uid, code) ==
    LET items == UserItems(files, session_uid, "watchlist") IN
    WriteUserItems(files, session_uid, "watchlist",
                   IF \E i \in 1..Len(items) : items[i] = code THEN items
                   ELSE Append(items, code))

\* _remove_local
remove_local(files, session_uid, code) ==
    WriteUserItems(files, session_uid, "watchlist",
                   SelectSeq(UserItems(files, session_uid, "watchlist"),
                             LAMBDA c : c # code))

\* watchlist_add_result under the session's user.
UserWatchlistAdd(code, mode, web) ==
    /\ StoredTotal < MaxStored
    /\ IF web /\ mode = "local"
       THEN UNCHANGED <<userFiles, cloudTables>>
       ELSE /\ userFiles' = IF mode = "cloud_raises" /\ web
                            THEN remove_local(add_local(userFiles, session, code),
                                              session, code)
                            ELSE add_local(userFiles, session, code)
            /\ cloudTables' =
                  IF /\ mode = "cloud"
                     /\ \A i \in 1..Len(load_remote_items(cloudTables, session)) :
                           load_remote_items(cloudTables, session)[i] # code
                  THEN [cloudTables EXCEPT !.app_watchlist =
                           Append(@, [user_id |-> current_user_id(session),
                                      row |-> code])]
                  ELSE cloudTables
    /\ session' = session
    /\ UserFrame

\* watchlist_remove under the session's user.
UserWatchlistRemove(code, mode, web) ==
    /\ cloudTables' =
          IF mode = "cloud"
          THEN [cloudTables EXCEPT !.app_watchlist =
                   DeleteRowsOfUser(@, current_user_id(session), LAMBDA c : c = code)]
          ELSE cloudTables
    /\ userFiles' = IF web /\ mode # "cloud"
                    THEN EnsureUserFile(userFiles, session, "watchlist")
                    ELSE remove_local(userFiles, session, code)
    /\ session' = session
    /\ UserFrame

\* finalize_estimated_close(d) under the session's user, on the files.
UserFinalizeEstimatedClose(d, est_map) ==
    /\ StoredTotal < MaxStored
    /\ userFiles' =
          WriteUserItems(EnsureUserFile(userFiles, session, "adjustments"), session,
                         "daily_ledger",
                         finalize_estimated_close(
                             UserItems(userFiles, session, "daily_ledger"),
                             UserItems(userFiles, session, "adjustments"),
                             d, est_map))
    /\ UNCHANGED <<session, cloudTables>>
    /\ UserFrame

\* record_intraday_point under the session's user.
UserRecordIntradayPoint(target, marker) ==
    /\ StoredTotal < MaxStored
    /\ userFiles[user_data_dir(session)].intraday[target].n < MaxUserPoints
    /\ userFiles' = [userFiles EXCEPT ![user_data_dir(session)].intraday =
                        record_intraday_point(@, target, marker)]
    /\ UNCHANGED <<session, cloudTables>>
    /\ UserFrame

UserNext ==
    \/ \E r \in RawUserIds : SetActiveUser(r)
    \/ \E in \in LedgerTrades, c \in JCodes, d \in Days, m \in StoreModes :
          UserAddAdjustment(in[1], c, d, in[2], in[3], in[4], in[5], m)
    \/ \E id \in 1..MaxUserItems, m \in StoreModes : UserRemoveAdjustment(id, m)
    \/ \E m \in StoreModes : UserClearAdjustments(m)
    \/ \E m \in StoreModes : UserListAdjustments(m)
    \/ \E c \in WatchCodes, m \in StoreModes, web \in BOOLEAN : UserWatchlistAdd(c, m, web)
    \/ \E c \in WatchCodes, m \in StoreModes, web \in BOOLEAN :
          UserWatchlistRemove(c, m, web)
    \/ \E d \in Days : UserFinalizeEstimatedClose(d, [c \in Codes |-> Float(1)])
    \/ \E t \in Targets, mk \in {"", "CLOSE"} : UserRecordIntradayPoint(t, mk)

SpecUsers == JournalInit /\ [][UserNext]_vars

\* Everything a user with the id uid reads from the files and the tables:
\* the journal and the watchlist however the cloud answers, the ledger rows
\* and the intraday series.
ReadsAs(files, tables, uid) ==
    [adjustments |-> [m \in StoreModes |-> user_list_adjustments(files, tables, uid, m)],
     watchlist |-> [mw \in StoreModes \X BOOLEAN |->
                       watchlist_list(files, tables, uid, mw[1], mw[2])],
     daily_ledger |-> UserItems(files, uid, "daily_ledger"),
     intraday |-> files[user_data_dir(uid)].intraday]

\* C29: an operation on the journal, the ledger, the watchlist or the
\* intraday store made under one user id changes nothing that a read made
\* under a different user id returns: after any sequence of operations of
\* user A, user B reads what B would read had A done nothing.
C29_ReadsOfOtherUsersUnchanged ==
    [][\A files \in {userFiles'}, tables \in {cloudTables'} :
          \A b \in UserDirs :
             b # current_user_id(session)
                => ReadsAs(files, tables, b) = ReadsAs(userFiles, cloudTables, b)]_vars

\* The user of the session holds journal entries in the file and in the
\* table, and another user holds an entry of their own.
C29_Witness ==
    \E a, b \in UserDirs :
       /\ a # b
       /\ a = current_user_id(session)
       /\ Len(userFiles[a].adjustments.items) > 0
       /\ Len(RowsOfUser(cloudTables.app_adjustments, a)) > 0
       /\ Len(userFiles[b].adjustments.items) > 0

-----------------------------------------------------------------------------
(* The collector's iterations around 15:00 of one trading day
   (scripts/intraday_collector.py, main).  The date bucket of the day holds
   the series of every code; an iteration reads the clock, resolves the codes,
   fetches the estimates, then writes the CLOSE markers and the samples. *)

MaxIterations == 4     \* iterations of the collector on the day
ClockMinutes == {14 * 60 + 57, 14 * 60 + 58, 15 * 60, 15 * 60 + 2, 15 * 60 + 3}
MarkerArgs == [only_trading : BOOLEAN, close_window_min : {1, 2}]
ResolvedCodes == {<<>>, <<"510300">>, <<"000001", "510300">>}

MarkerFrame ==
    UNCHANGED <<journal, ledger, today, cloud, estIn, estOut, snapOut, settledKeys,
                valuationAux, intradayAux, historyAux, cloudAux, lockAux, schedAux,
                nightlyAux, userAux, editAux, launchAux>>

\* The collector is started on a new day with its arguments.
StartCollectorDay(args) ==
    /\ collectorDay' = [DayNotStarted EXCEPT !.args = args]
    /\ MarkerFrame

\* One pass of the loop of main at the minute hm: codes is what --codes or
\* watchlist_list() gives, estimate_ok whether estimate_many returned, and
\* close_raise_at / sample_raise_at the call of either loop that raises.
CollectorIteration(hm, codes, estimate_ok, close_raise_at, sample_raise_at) ==
    /\ collectorDay.iterations < MaxIterations
    /\ hm >= collectorDay.hm
    /\ LET in_trading == is_cn_trading_time(hm)
           in_close_window == is_close_window(hm, collectorDay.args.close_window_min)
           skipped == \/ codes = <<>>
                      \/ collectorDay.args.only_trading /\ ~in_trading /\ ~in_close_window
           estimated == ~skipped /\ estimate_ok
           marked == IF estimated /\ in_close_window
                     THEN CloseMarkerLoop(collectorDay.series, codes, 1, close_raise_at)
                     ELSE collectorDay.series
           sampled == IF estimated /\ in_trading
                      THEN SampleLoop(marked, codes, 1, sample_raise_at)
                      ELSE marked
       IN  collectorDay' =
               [collectorDay EXCEPT
                   !.hm = hm,
                   !.iterations = @ + 1,
                   !.series = sampled,
                   !.last = [in_close_window |-> in_close_window, codes |-> codes,
                             estimated |-> estimated,
                             close_raised |-> estimated /\ in_close_window
                                              /\ close_raise_at # 0]]
    /\ MarkerFrame

MarkerNext ==
    \/ \E args \in MarkerArgs : StartCollectorDay(args)
    \/ \E hm \in ClockMinutes, codes \in ResolvedCodes, estimate_ok \in BOOLEAN :
          \E close_raise_at, sample_raise_at \in 0..Len(codes) :
             CollectorIteration(hm, codes, estimate_ok, close_raise_at, sample_raise_at)

SpecCloseMarker == JournalInit /\ [][MarkerNext]_vars

\* The last iteration ran inside the close-marker window with a non-empty
\* set of codes and a successful estimate fetch.
MarkerIterationDone ==
    /\ collectorDay.last.in_close_window
    /\ collectorDay.last.codes # <<>>
    /\ collectorDay.last.estimated

-----------------------------------------------------------------------------
(* Start of the collector process (services/collector_service.py).  The pid
   file is status_dir() / "collector.pid" under runtime_root()
   (storage/paths.py: 39-56, 221-224), one file for the installation; the
   spawned process gets the caller's user in FUND_ESTIMATOR_USER_ID.  The
   steps of a call are collector_running(), Popen and the write of the pid. *)

MaxSpawned == 3     \* collector processes spawned at most

LaunchFrame ==
    UNCHANGED <<journal, ledger, today, cloud, estIn, estOut, snapOut, settledKeys,
                valuationAux, intradayAux, historyAux, cloudAux, lockAux, schedAux,
                nightlyAux, userAux, markerAux, editAux>>

\* Whether a collector with the data scope of user runs.
OwnCollectorAlive(alive, user) == \E p \in alive : p.user = user

\* start_collector (or ensure_collector_running) up to the return of
\* collector_running(): "already_running" when the pid of the file is alive;
\* otherwise a stale pid file is unlinked and the call goes on to Popen.
StartCollectorCheck(s, user) ==
    /\ launcher.call[s].pc = "idle"
    /\ launcher' =
          IF is_pid_alive(launcher.alive, launcher.pid_file)
          THEN [launcher EXCEPT !.call[s] =
                   [pc |-> "idle", user |-> user, pid |-> 0, ok |-> TRUE,
                    own_alive |-> OwnCollectorAlive(launcher.alive, user)]]
          ELSE [launcher EXCEPT !.pid_file = 0,
                                !.call[s] = [NoCall EXCEPT !.pc = "popen", !.user = user]]
    /\ LaunchFrame

\* subprocess.Popen: the collector runs with the caller's user, or Popen
\* raises and the call returns (False, str(e)).
StartCollectorPopen(s, raises) ==
    /\ launcher.call[s].pc = "popen"
    /\ launcher.spawned < MaxSpawned
    /\ launcher' =
          IF raises
          THEN [launcher EXCEPT !.call[s] = [NoCall EXCEPT !.user = launcher.call[s].user]]
          ELSE [launcher EXCEPT
                   !.spawned = @ + 1,
                   !.alive = @ \cup {[pid |-> launcher.spawned + 1,
                                      user |-> launcher.call[s].user]},
                   !.call[s] = [@ EXCEPT !.pc = "write", !.pid = launcher.spawned + 1]]
    /\ LaunchFrame

\* _write_collector_pid(proc.pid) and the return of (True, "pid=...").
StartCollectorWritePid(s) ==
    /\ launcher.call[s].pc = "write"
    /\ launcher' =
          [launcher EXCEPT
              !.pid_file = launcher.call[s].pid,
              !.call[s] = [@ EXCEPT !.pc = "idle", !.ok = TRUE,
                                    !.own_alive = OwnCollectorAlive(launcher.alive,
                                                                   launcher.call[s].user)]]
    /\ LaunchFrame

\* A collector process ends (stopped, crashed, machine restarted).
CollectorExits(p) ==
    /\ p \in launcher.alive
    /\ launcher' = [launcher EXCEPT !.alive = @ \ {p}]
    /\ LaunchFrame

LaunchNext ==
    \/ \E s \in Sessions, user \in SessionUsers : StartCollectorCheck(s, user)
    \/ \E s \in Sessions, raises \in BOOLEAN : StartCollectorPopen(s, raises)
    \/ \E s \in Sessions : StartCollectorWritePid(s)
    \/ \E p \in launcher.alive : CollectorExits(p)

SpecLaunch == JournalInit /\ [][LaunchNext]_vars

\* C39 as stated: under every interleaving of start_collector calls at most
\* one collector is alive for a user's data scope, and a call that returns
\* success leaves the caller's own scope with a collector, whether or not a
\* collector of another user runs.
C39_OneCollectorPerUser ==
    /\ \A user \in SessionUsers :
          Cardinality({p \in launcher.alive : p.user = user}) <= 1
    /\ \A s \in Sessions :
          launcher.call[s].ok => launcher.call[s].own_alive

\* The pid file is absent or holds the pid of a process that start_collector
\* spawned, and every collector that runs was spawned for a signed-in user.
C39_PidFileNamesSpawned ==
    /\ launcher.pid_file \in 0..launcher.spawned
    /\ \A p \in launcher.alive : p.pid \in 1..launcher.spawned /\ p.user \in SessionUsers

=============================================================================
